---- MODULE Spec2Model ----
(***************************************************************************)
(* Model of the EasyMeter analysis core (MiniMetersCloneAudioProcessor):   *)
(* prepareToPlay, processBlock, fillSnapshot, requestAudioDump and         *)
(* resetLoudnessStatistics over the private audio-thread state, the        *)
(* lock-guarded SharedState aggregate and the editor's snapshot.           *)
(*                                                                         *)
(* Numbers.  Samples are integers in units of 0.5 (2 is the sample 1.0),   *)
(* so that the oscilloscope's 0.5 * (L + R) stays an integer.  Energies    *)
(* are integers in units of 1e-12 (1 is the floor 1.0e-12, 1000 is the     *)
(* initial 1.0e-9); the unit is taken a few parts per million above 1e-12  *)
(* so that 117246 stands for an energy whose float loudness is -70.0f      *)
(* exactly (such floats exist around 1.172463e-7).  Loudness is an integer *)
(* number of LU: the float result of -0.691 + 10 log10(e) rounded up, so   *)
(* that a comparison "loudness > k" with a whole k is exact.  Loudness     *)
(* range is kept in units of 0.01 LU, which makes the percentile           *)
(* interpolation exact.                                                    *)
(* Time is scaled: one unit of the sample rate is one sample per loudness  *)
(* history interval (50 ms), and every duration and every ring capacity    *)
(* of the source is replaced by a small bound, named below.                *)
(***************************************************************************)
EXTENDS Integers, Sequences, FiniteSets, TLC, Bags

VARIABLES priv, shared, lock, snapshot, dump, pcAudio, pcUI, pending, uiResult, ghost

vars == <<priv, shared, lock, snapshot, dump, pcAudio, pcUI, pending, uiResult, ghost>>

----------------------------------------------------------------------------
(* Bounds of the model (the value of the source in the comment).           *)

\* kOscilloscopeBufferSize (2048)
kOscilloscopeBufferSize == 3
\* kWaveformResolution (512)
kWaveformResolution == 2
\* std::array<juce::Point<float>, 512> lissajousPoints
kLissajousPoints == 2
\* integratedBlocks = round (600 / 0.4) (1500)
IntegratedBlocks == 3
\* loudnessHistoryCapacity = round (20 / 0.05) (400)
LoudnessHistorySpan == 3
\* integrated block length in history intervals, 0.4 / 0.05 (8)
IntegratedBlockIntervals == 1
\* audio history length in history intervals, 10 / 0.05 (200)
AudioHistoryIntervals == 2
\* spectrogram span in history intervals, 3 / 0.05 (60)
SpectrogramIntervals == 1
\* fft.getSize() (2048)
FftSize == 2
\* the longest block the host delivers
MaxBlock == 3
\* samples processed between two prepares
MaxTotal == 4
\* the same where only the loudness engine runs
MaxLoudTotal == 5

\* an FFT wide enough for the hop to differ from the rest of the window, and
\* the samples between two prepares that let it emit several frames
WideFftSize == 4
MaxFftTotal == 8

\* the longest block and the samples between two prepares when the threads
\* are interleaved
MaxConcBlock == 1
MaxConcTotal == 1

\* the sample rates the host prepares with, in samples per history interval
SampleRates == {1, 2}

----------------------------------------------------------------------------
(* Arithmetic helpers.                                                     *)

jmax(a, b) == IF a >= b THEN a ELSE b

jmin(a, b) == IF a <= b THEN a ELSE b

jlimit(lo, hi, v) == IF v < lo THEN lo ELSE IF v > hi THEN hi ELSE v

RECURSIVE IntPow(_, _)
IntPow(b, n) == IF n = 0 THEN 1 ELSE b * IntPow(b, n - 1)

\* ceil (a / b) for a >= 0, b > 0
CeilDiv(a, b) == (a + b - 1) \div b

\* a vector of the given size filled with one value, indexed from 0
Assign(size, v) == [i \in 0 .. size - 1 |-> v]

Size(vec) == Cardinality(DOMAIN vec)

\* r or r + 1, whichever is the square root of x rounded down
IsqrtStep(x, r) == IF (r + 1) * (r + 1) > x THEN r ELSE r + 1

RECURSIVE Isqrt(_)
\* std::sqrt, rounded down to a whole number
Isqrt(x) == IF x < 2 THEN x ELSE IsqrtStep(x, 2 * Isqrt(x \div 4))

\* the last n entries of a sequence
LastN(s, n) == SubSeq(s, Len(s) - n + 1, Len(s))

----------------------------------------------------------------------------
(* Energy to loudness.                                                     *)

\* the mantissas (six digits) up to which -0.691f + 10.0f * std::log10 stays
\* at or below -70, -69, ..., -61; the first is the energy of loudness -70
LoudnessSteps ==
    <<117246, 147604, 185823, 233937, 294510, 370766, 466767, 587625, 739776, 931322>>

RECURSIVE Log10Ceil(_, _)
\* -0.691 + 10 log10 (e) rounded up to a whole LU, for e >= 1 in the model's
\* unit: e is brought to a six-digit mantissa, e ~ mantissa * 10^shift
Log10Ceil(e, shift) ==
    IF e >= 1000000 THEN Log10Ceil(e \div 10, shift + 1)
    ELSE IF e < 100000 THEN Log10Ceil(e * 10, shift - 1)
    ELSE 10 * shift - 70
         + Cardinality({k \in 1 .. Len(LoudnessSteps) : e > LoudnessSteps[k]})

\* energyToLoudness: -0.691f + 10.0f * std::log10 (juce::jmax (1.0e-12f, energy))
energyToLoudness(energy) == Log10Ceil(jmax(1, energy), 0)

\* the block loudness of processBlock: the sentinel when the block is silent,
\* else -0.691f + 10.0f * std::log10 (accumulator + 1.0e-12f)
BlockLufs(monoEnergy, accumulator) ==
    IF monoEnergy > 0 THEN Log10Ceil(accumulator + 1, 0) ELSE -100

----------------------------------------------------------------------------
(* The state after construction.                                           *)

\* momentaryCoeff = exp (-1 / (0.4 * sampleRate)) and shortTermCoeff =
\* exp (-1 / (3 * sampleRate)) as fractions <<numerator, denominator>>, on the
\* model's time scale; both are 0.0f until the first prepare
MomentaryCoeff == <<1, 4>>

ShortTermCoeff == <<1, 2>>
\* setBallistics (10.0f, 300.0f): the peak envelope rises faster than it falls
PeakRiseCoeff == <<1, 2>>
PeakFallCoeff == <<3, 4>>

\* the member initialisers of MiniMetersCloneAudioProcessor
\* struct LoudnessMeterState: the target in LU, the history window in seconds
DefaultLoudnessMeterState ==
    [ targetLufs |-> -14, showRms |-> FALSE, historySeconds |-> 20 ]

\* struct StereoMeterState: scopeScale and trailSeconds in tenths
DefaultStereoMeterState ==
    [ viewMode |-> 1, displayMode |-> 1, scopeScale |-> 10, historySeconds |-> 6,
      freeze |-> FALSE, showDots |-> FALSE, persistence |-> FALSE, trailSeconds |-> 6 ]

\* what the four band filters of one channel remember: each its last input
FilterReset == [ low |-> 0, midHigh |-> 0, midLow |-> 0, high |-> 0 ]

PrivInit ==
    [ integratedBlockSamples         |-> 0,
      integratedEnergyAccumulator    |-> 0,
      integratedSampleCounter        |-> 0,
      integratedBlockEnergies        |-> Assign(0, 0),
      integratedWriteIndex           |-> 0,
      integratedFilled               |-> 0,
      loudnessHistoryIntervalSamples |-> 0,
      loudnessHistorySampleCounter   |-> 0,
      loudnessHistoryCapacity        |-> 0,
      shortTermHistoryBuffer         |-> Assign(0, 0),
      shortTermHistoryWriteIndex     |-> 0,
      shortTermHistoryFilled         |-> 0,
      integratedLoudness             |-> -100,
      loudnessRangeValue             |-> 0,
      maxMomentaryLufs               |-> -100,
      maxShortTermLufs               |-> -100,
      momentaryCoeff                 |-> <<0, 1>>,
      shortTermCoeff                 |-> <<0, 1>>,
      momentaryEnergy                |-> 1000,
      shortTermEnergy                |-> 1000,
      waveformFilters                |-> [ch \in 0 .. 1 |-> FilterReset],
      \* juce::dsp::FFT fft: its size
      fftSize                        |-> FftSize,
      fftInputSize                   |-> 0,
      fftInputPos                    |-> 0,
      fftHop                         |-> jmax(1, FftSize \div 4),
      fftSpectrumFrame               |-> 0,
      peakRiseCoeff                  |-> <<0, 1>>,
      peakFallCoeff                  |-> <<0, 1>>,
      peakL                          |-> <<0, 1>>,
      peakR                          |-> <<0, 1>>,
      loudnessState                  |-> DefaultLoudnessMeterState,
      stereoState                    |-> DefaultStereoMeterState ]

\* initialiseSharedState; a spectrogram column holds the number of the frame
\* written into it (0: a cleared column), spectrum and spectrumAverages the
\* number of the last frame stored or blended into them (0: all zeros)
SharedInit ==
    [ audioHistory             |-> [ch \in 0 .. 1 |-> Assign(1, 0)],
      writePosition            |-> 0,
      hasWrapped               |-> FALSE,
      spectrum                 |-> 0,
      spectrumAverages         |-> 0,
      waveformMin              |-> [ch \in 0 .. 1 |-> Assign(kWaveformResolution, 0)],
      waveformMax              |-> [ch \in 0 .. 1 |-> Assign(kWaveformResolution, 0)],
      waveformSamplesPerBucket |-> 1,
      waveformWriteIndex       |-> 0,
      waveformFilled           |-> 0,
      waveformSampleCounter    |-> 0,
      waveformCurrentMin       |-> [ch \in 0 .. 1 |-> 2],
      waveformCurrentMax       |-> [ch \in 0 .. 1 |-> -2],
      \* not assigned by initialiseSharedState: the vectors are empty
      waveformBandEnergy       |-> [ch \in 0 .. 1 |-> [band \in 0 .. 2 |-> Assign(0, 0)]],
      waveformBandAccum        |-> [ch \in 0 .. 1 |-> [band \in 0 .. 2 |-> 0]],
      oscilloscopeBuffer       |-> Assign(kOscilloscopeBufferSize, 0),
      oscilloscopeWriteIndex   |-> 0,
      oscilloscopeFilled       |-> 0,
      spectrogramHistory       |-> Assign(1, 0),
      spectrogramWritePosition |-> 0,
      spectrogramWrapped       |-> FALSE,
      momentaryLufs            |-> -100,
      shortTermLufs            |-> -100,
      integratedLufs           |-> -100,
      loudnessRange            |-> 0,
      maxMomentary             |-> -100,
      maxShortTerm             |-> -100,
      clippedL                 |-> FALSE,
      clippedR                 |-> FALSE,
      correlation              |-> 0,
      stereoWidth              |-> 0,
      lissajousCount           |-> 0,
      loudnessHistory          |-> Assign(0, 0),
      loudnessHistoryWrite     |-> 0,
      loudnessHistoryFilled    |-> 0,
      \* which block (its parity) last wrote the rings, the scalars, the history
      stampRings               |-> 0,
      stampScalars             |-> 0,
      stampHistory             |-> 0 ]

\* the member initialisers of SharedDataSnapshot
SnapshotInit ==
    [ audioHistory             |-> [ch \in 0 .. 1 |-> Assign(0, 0)],
      writePosition            |-> 0,
      bufferWrapped            |-> FALSE,
      waveformLeftMins         |-> <<>>,
      waveformLeftMaxs         |-> <<>>,
      waveformRightMins        |-> <<>>,
      waveformRightMaxs        |-> <<>>,
      waveformSamplesPerBucket |-> 0,
      oscilloscope             |-> <<>>,
      spectrum                 |-> 0,
      spectrogram              |-> Assign(0, 0),
      spectrogramWritePosition |-> 0,
      spectrogramWrapped       |-> FALSE,
      momentaryLufs            |-> -100,
      shortTermLufs            |-> -100,
      integratedLufs           |-> -100,
      loudnessRange            |-> 0,
      maxMomentaryLufs         |-> -100,
      maxShortTermLufs         |-> -100,
      clipLeft                 |-> FALSE,
      clipRight                |-> FALSE,
      loudnessHistory          |-> <<>>,
      stampRings               |-> 0,
      stampScalars             |-> 0,
      stampHistory             |-> 0 ]

\* the destination of requestAudioDump, owned by its caller
DumpInit == [dest |-> [ch \in 0 .. 1 |-> Assign(0, 0)], hasWrapped |-> FALSE]

\* nothing computed and waiting to be published
NoPending ==
    [ sr |-> 0, numCh |-> 0, L |-> <<>>, R |-> <<>>, momentaryLufs |-> -100,
      shortTermLufs |-> -100, historyUpdates |-> 0,
      spectrumFrameUpdated |-> FALSE, clippedL |-> FALSE, clippedR |-> FALSE,
      stereo |-> [ corr |-> 0, stereoWidth |-> 0, rmsBlockL |-> 0, rmsBlockR |-> 0,
                   midRmsBlock |-> 0, sideRmsBlock |-> 0, balanceDb |-> 0,
                   lissa |-> <<>> ] ]

\* history variables: what was pushed since the last prepare (for the loudness
\* history also since the last reset), and the same as of the last snapshot
GhostInit ==
    [ total |-> 0, parity |-> 0, frames |-> 0,
      oscPushed |-> <<>>, wavePushed |-> <<>>, waveFed |-> <<>>,
      histPushed |-> <<>>, colsWritten |-> <<>>, sqAll |-> <<>>, stPushed |-> <<>>,
      snapOsc |-> <<>>, snapWave |-> <<>>, snapHist |-> <<>>, snapCols |-> <<>>,
      lastL |-> <<>>, input |-> "signal", tail |-> 0, missed |-> 0, missedIn |-> 0,
      watch |-> FALSE, polls |-> FALSE, resetPhase |-> "none", laterBlock |-> FALSE,
      sinceMomentary |-> -100, sinceShortTerm |-> -100,
      arg |-> [ kind |-> "none", loudness |-> DefaultLoudnessMeterState,
                stereo |-> DefaultStereoMeterState ] ]

Init ==
    /\ priv = PrivInit
    /\ shared = SharedInit
    /\ lock = "none"
    /\ snapshot = SnapshotInit
    /\ dump = DumpInit
    /\ pcAudio = "idle"
    /\ pcUI = "idle"
    /\ pending = NoPending
    /\ uiResult = "none"
    /\ ghost = GhostInit

----------------------------------------------------------------------------
(* The loudness engine.                                                    *)

RECURSIVE SumSeq(_)
SumSeq(s) == IF s = <<>> THEN 0 ELSE Head(s) + SumSeq(Tail(s))

\* the count entries of a ring that end before the write index, oldest first
Linearise(ring, start, count) ==
    [i \in 1 .. count |-> ring[(start + i - 1) % Size(ring)]]

\* a linearisation that always starts at slot 0
RingStartAtZero(writeIndex, count, capacity) == 0

\* start = (writeIndex + capacity - count) % capacity
RingStart(writeIndex, count, capacity) == (writeIndex + capacity - count) % capacity

RECURSIVE Insert(_, _)
Insert(v, s) ==
    IF s = <<>> THEN <<v>>
    ELSE IF v <= Head(s) THEN <<v>> \o s
    ELSE <<Head(s)>> \o Insert(v, Tail(s))

RECURSIVE Sort(_)
\* std::sort, ascending
Sort(s) == IF s = <<>> THEN <<>> ELSE Insert(Head(s), Sort(Tail(s)))

\* a percentile that takes the lower order statistic as it is
percentileWithoutInterpolation(scratch, valid, p) ==
    100 * scratch[(((valid - 1) * p) \div 100) + 1]

\* the percentile lambda of updateLoudnessRange, times 100; p is in percent
\* and scratch is 1-based here
percentile(scratch, valid, p) ==
    LET index100 == (valid - 1) * p
        lower    == index100 \div 100
        upper    == jmin(valid - 1, lower + 1)
        fraction == index100 - 100 * lower
        lowVal   == scratch[lower + 1]
        highVal  == scratch[upper + 1]
    IN  100 * lowVal + (highVal - lowVal) * fraction

updateLoudnessRange(p) ==
    IF p.shortTermHistoryFilled < 2 \/ Size(p.shortTermHistoryBuffer) = 0
    THEN [p EXCEPT !.loudnessRangeValue = 0]
    ELSE
      LET capacity == Size(p.shortTermHistoryBuffer)
          count    == p.shortTermHistoryFilled
          start    == RingStart(p.shortTermHistoryWriteIndex, count, capacity)
          scratch  == Linearise(p.shortTermHistoryBuffer, start, count)
          gatingThreshold == p.integratedLoudness - 20
          kept     == SelectSeq(scratch, LAMBDA value : ~(value < gatingThreshold))
          valid    == Len(kept)
          sorted   == Sort(kept)
          low      == percentile(sorted, valid, 10)
          high     == percentile(sorted, valid, 95)
      IN  IF valid < 2
          THEN [p EXCEPT !.loudnessRangeValue = 0]
          ELSE [p EXCEPT !.loudnessRangeValue = jmax(0, high - low)]

\* an absolute gate that also keeps a block at -70 and just below
PassesGateAtOrAbove(energy) == energyToLoudness(energy) >= -70

\* the absolute gate of updateIntegratedMetrics: if (loudness > -70.0f)
PassesAbsoluteGate(energy) == energyToLoudness(energy) > -70

\* a relative gate 10 above the loudness of the mean
relativeGateAbove(averageLoudness) == averageLoudness + 10

\* const float relativeGate = averageLoudness - 10.0f
relativeGate(averageLoudness) == averageLoudness - 10

\* integratedScratch[0 .. valid): the held blocks that pass the absolute gate
AbsoluteGated(p) ==
    LET capacity == Size(p.integratedBlockEnergies)
        count    == p.integratedFilled
        start    == RingStart(p.integratedWriteIndex, count, capacity)
    IN  SelectSeq(Linearise(p.integratedBlockEnergies, start, count), PassesAbsoluteGate)

\* those of scratch (not empty) that pass the relative gate
RelativeGated(scratch) ==
    LET averageLoudness == energyToLoudness(SumSeq(scratch) \div Len(scratch))
    IN  SelectSeq(scratch,
                  LAMBDA e : energyToLoudness(e) >= relativeGate(averageLoudness))

updateIntegratedMetrics(p) ==
    IF p.integratedFilled = 0 \/ Size(p.integratedBlockEnergies) = 0
    THEN updateLoudnessRange([p EXCEPT !.integratedLoudness = -100])
    ELSE
      LET scratch  == AbsoluteGated(p)
          valid    == Len(scratch)
      IN  IF valid = 0
          THEN updateLoudnessRange([p EXCEPT !.integratedLoudness = -100])
          ELSE
            LET averageEnergy   == SumSeq(scratch) \div valid
                averageLoudness == energyToLoudness(averageEnergy)
                gated      == RelativeGated(scratch)
                gatedCount == Len(gated)
                result     == IF gatedCount = 0
                              THEN averageLoudness
                              ELSE energyToLoudness(SumSeq(gated) \div gatedCount)
            IN  updateLoudnessRange([p EXCEPT !.integratedLoudness = result])

\* a push that stores nothing once the ring is full
pushIntegratedBlockUntilFull(p, energy) ==
    IF Size(p.integratedBlockEnergies) = 0 THEN p
    ELSE IF p.integratedFilled >= Size(p.integratedBlockEnergies)
    THEN updateIntegratedMetrics(p)
    ELSE updateIntegratedMetrics(
            [p EXCEPT !.integratedBlockEnergies[p.integratedWriteIndex] = jmax(1, energy),
                      !.integratedWriteIndex =
                          (p.integratedWriteIndex + 1) % Size(p.integratedBlockEnergies),
                      !.integratedFilled = p.integratedFilled + 1])

pushIntegratedBlock(p, energy) ==
    IF Size(p.integratedBlockEnergies) = 0 THEN p
    ELSE
      LET capacity == Size(p.integratedBlockEnergies)
      IN  updateIntegratedMetrics(
            [p EXCEPT !.integratedBlockEnergies[p.integratedWriteIndex] = jmax(1, energy),
                      !.integratedWriteIndex = (p.integratedWriteIndex + 1) % capacity,
                      !.integratedFilled = jmin(capacity, p.integratedFilled + 1)])

pushShortTermHistoryValue(p, value) ==
    IF Size(p.shortTermHistoryBuffer) = 0 THEN p
    ELSE
      LET capacity == Size(p.shortTermHistoryBuffer)
      IN  [p EXCEPT !.shortTermHistoryBuffer[p.shortTermHistoryWriteIndex] =
                        jlimit(-100, 10, value),
                    !.shortTermHistoryWriteIndex =
                        (p.shortTermHistoryWriteIndex + 1) % capacity,
                    !.shortTermHistoryFilled = jmin(capacity, p.shortTermHistoryFilled + 1)]

RECURSIVE IntegrateSamples(_, _)
\* the per-sample loop over the K-weighted mono signal: sq holds its squares
IntegrateSamples(p, sq) ==
    IF sq = <<>> THEN p
    ELSE IF p.integratedBlockSamples > 0
    THEN
      LET acc     == p.integratedEnergyAccumulator + Head(sq)
          counter == p.integratedSampleCounter + 1
      IN  IF counter >= p.integratedBlockSamples
          THEN IntegrateSamples(
                 [pushIntegratedBlock(p, acc \div p.integratedBlockSamples)
                    EXCEPT !.integratedEnergyAccumulator = 0,
                           !.integratedSampleCounter = 0],
                 Tail(sq))
          ELSE IntegrateSamples(
                 [p EXCEPT !.integratedEnergyAccumulator = acc,
                           !.integratedSampleCounter = counter],
                 Tail(sq))
    ELSE p

\* coeff ^ n applied to an accumulator: pow (coeff, n) * energy + (1 - pow (coeff, n)) * monoEnergy
Smooth(coeff, n, energy, monoEnergy) ==
    LET num == IntPow(coeff[1], n)
        den == IntPow(coeff[2], n)
    IN  (num * energy + (den - num) * monoEnergy) \div den

RECURSIVE PushHistory(_, _, _)
PushHistory(p, value, updates) ==
    IF updates = 0 THEN p
    ELSE PushHistory(pushShortTermHistoryValue(p, value), value, updates - 1)

RECURSIVE FftFrames(_, _, _, _)
\* the frames completed while n samples enter the FFT input at position pos
FftFrames(size, pos, hop, n) ==
    IF n = 0 THEN 0
    ELSE IF pos + 1 >= size THEN 1 + FftFrames(size, hop, hop, n - 1)
    ELSE FftFrames(size, pos + 1, hop, n - 1)

RECURSIVE FftPos(_, _, _, _)
FftPos(size, pos, hop, n) ==
    IF n = 0 THEN pos
    ELSE IF pos + 1 >= size THEN FftPos(size, hop, hop, n - 1)
    ELSE FftPos(size, pos + 1, hop, n - 1)

----------------------------------------------------------------------------
(* processBlock, the part on the audio thread's private state.             *)

\* A block is [numCh, L, R, sq]: the channel count, the samples of both
\* channels and, per sample, the square of the K-weighted mono signal (the
\* output of kPreFilter and kHighpass, whose state the model does not hold).
BlockLen(b) == Len(b.L)

\* findMaximum (...) >= 0.999f || findMinimum (...) <= -0.999f
Clipped(samples) == \E i \in 1 .. Len(samples) : samples[i] >= 2 \/ samples[i] <= -2

Abs(v) == IF v < 0 THEN 0 - v ELSE v

RECURSIVE Gcd(_, _)
Gcd(a, b) == IF b = 0 THEN a ELSE Gcd(b, a % b)

\* a fraction <<numerator, denominator>> in lowest terms, denominator > 0
Fraction(num, den) ==
    IF num = 0 THEN <<0, 1>>
    ELSE <<num \div Gcd(Abs(num), den), den \div Gcd(Abs(num), den)>>

FractionLess(x, y) == x[1] * y[2] < y[1] * x[2]

\* coeff * pk + (1.0f - coeff) * a
Blend(coeff, pk, a) ==
    Fraction(coeff[1] * pk[1] + (coeff[2] - coeff[1]) * a * pk[2], coeff[2] * pk[2])

\* lines 903-904: one sample of magnitude a through the envelope
PeakStep(p, pk, a) ==
    IF FractionLess(pk, <<a, 1>>) THEN Blend(p.peakRiseCoeff, pk, a)
                                  ELSE Blend(p.peakFallCoeff, pk, a)

RECURSIVE PeakLoop(_, _, _)
\* lines 900-906: the envelope over the samples of one channel, from pk
PeakLoop(p, pk, samples) ==
    IF samples = <<>> THEN pk
    ELSE PeakLoop(p, PeakStep(p, pk, Abs(Head(samples))), Tail(samples))

\* lines 884, 897-918, 949-950: float pL = 0.0f, pR = 0.0f at the start of the
\* block, the two loops, and the stores into the atomics
StorePeaks(p, b) ==
    [p EXCEPT !.peakL = IF b.numCh >= 1 THEN PeakLoop(p, <<0, 1>>, b.L) ELSE <<0, 1>>,
              !.peakR = IF b.numCh >= 2 THEN PeakLoop(p, <<0, 1>>, b.R) ELSE <<0, 1>>]

\* lines 977-978: the mean square of the block
MonoEnergy(b) == IF BlockLen(b) > 0 THEN SumSeq(b.sq) \div BlockLen(b) ELSE 0

\* lines 980-983: both accumulators advanced by the whole block
SmoothAccumulators(p, n, monoEnergy) ==
    [p EXCEPT
       !.momentaryEnergy = Smooth(p.momentaryCoeff, n, p.momentaryEnergy, monoEnergy),
       !.shortTermEnergy = Smooth(p.shortTermCoeff, n, p.shortTermEnergy, monoEnergy)]

\* lines 1025-1028: the maxima, and the history counter advanced by the block
TrackMaxima(p, n, momentaryLufs, shortTermLufs) ==
    [p EXCEPT
       !.maxMomentaryLufs = jmax(p.maxMomentaryLufs, momentaryLufs),
       !.maxShortTermLufs = jmax(p.maxShortTermLufs, shortTermLufs),
       !.loudnessHistorySampleCounter = p.loudnessHistorySampleCounter + n]

\* the loop at line 1030 is never left when loudnessHistoryIntervalSamples is
\* 0, as the constructor leaves it: its condition counter >= 0 stays true
HistoryLoopSpins(p) == p.loudnessHistoryIntervalSamples <= 0

\* historyUpdates: the times the loop at line 1030 runs
HistoryUpdates(p) ==
    IF HistoryLoopSpins(p) THEN 0
    ELSE p.loudnessHistorySampleCounter \div p.loudnessHistoryIntervalSamples

\* lines 1030-1037
DrainHistory(p, shortTermLufs) ==
    IF HistoryLoopSpins(p) THEN p
    ELSE IF HistoryUpdates(p) > 0
    THEN updateLoudnessRange(
           PushHistory(
             [p EXCEPT !.loudnessHistorySampleCounter =
                           p.loudnessHistorySampleCounter % p.loudnessHistoryIntervalSamples],
             shortTermLufs, HistoryUpdates(p)))
    ELSE p

\* lines 1062-1092: the frames the block completes; the spectrum frame holds
\* the number of the last one
RunFft(p, n, frameBase) ==
    IF HistoryLoopSpins(p) THEN p
    ELSE [p EXCEPT
            !.fftInputPos = FftPos(p.fftSize, p.fftInputPos, p.fftHop, n),
            !.fftSpectrumFrame =
                IF FftFrames(p.fftSize, p.fftInputPos, p.fftHop, n) > 0
                THEN frameBase + FftFrames(p.fftSize, p.fftInputPos, p.fftHop, n)
                ELSE @]

\* the samples read through r: channel 1, or channel 0 again for one channel
RightOrLeft(b) == IF b.numCh > 1 THEN b.R ELSE b.L

SumProducts(xs, ys) == SumSeq([i \in 1 .. Len(xs) |-> xs[i] * ys[i]])

\* std::sqrt ((float) (acc / jmax (1, n))), in twentieths of the sample unit
BlockRms(acc, n) == Isqrt((100 * acc) \div jmax(1, n))

\* lines 997-1013, in hundredths: 0 unless the block has two channels
Correlation(b) ==
    IF b.numCh = 2
    THEN LET dot    == SumProducts(b.L, b.R)
             magLSq == SumProducts(b.L, b.L)
             magRSq == SumProducts(b.R, b.R)
         IN  IF magLSq > 0 /\ magRSq > 0
             THEN jlimit(-100, 100, (100 * dot) \div Isqrt(magLSq * magRSq))
             ELSE 0
    ELSE 0

RECURSIVE Log2Floor(_)
Log2Floor(x) == IF x < 2 THEN 0 ELSE 1 + Log2Floor(x \div 2)

\* juce::Decibels::gainToDecibels (rms + 1.0e-6f, -80.0f), 6 dB to the factor
\* of two; full scale is 40 twentieths of the sample unit
gainToDecibels(rms) == IF rms <= 0 THEN -80 ELSE jmax(-80, 6 * (Log2Floor(rms) - 5))

\* lines 1042-1055: every step-th sample pair, clamped, until lissa is full
LissajousPoints(b) ==
    IF b.numCh >= 1
    THEN LET n     == Len(b.L)
             step  == jmax(1, n \div kLissajousPoints)
             count == jmin(kLissajousPoints, CeilDiv(n, step))
         IN  [k \in 1 .. count |->
                << jlimit(-2, 2, b.L[(k - 1) * step + 1]),
                   jlimit(-2, 2, RightOrLeft(b)[(k - 1) * step + 1]) >>]
    ELSE <<>>

\* lines 889-1021 and 1042-1055: the stereo figures of the block.  The mid and
\* side sums carry the factor 1/2 of (l +- r) / sqrt 2.
StereoMetrics(b) ==
    LET n    == Len(b.L)
        l    == b.L
        r    == RightOrLeft(b)
        accL == IF b.numCh >= 1 THEN SumProducts(l, l) ELSE 0
        accR == IF b.numCh >= 2 THEN SumProducts(b.R, b.R) ELSE 0
        midAcc  == IF b.numCh >= 1
                   THEN SumSeq([i \in 1 .. n |-> (l[i] + r[i]) * (l[i] + r[i])]) ELSE 0
        sideAcc == IF b.numCh >= 1
                   THEN SumSeq([i \in 1 .. n |-> (l[i] - r[i]) * (l[i] - r[i])]) ELSE 0
        rmsBlockL == IF b.numCh >= 1 THEN BlockRms(accL, n) ELSE 0
        rmsBlockR == IF b.numCh >= 2 THEN BlockRms(accR, n) ELSE rmsBlockL
    IN  [ corr         |-> Correlation(b),
          stereoWidth  |-> jlimit(0, 100, (100 - Correlation(b)) \div 2),
          rmsBlockL    |-> rmsBlockL,
          rmsBlockR    |-> rmsBlockR,
          midRmsBlock  |-> IF n > 0 THEN Isqrt((100 * midAcc) \div (2 * jmax(1, n))) ELSE 0,
          sideRmsBlock |-> IF n > 0 THEN Isqrt((100 * sideAcc) \div (2 * jmax(1, n))) ELSE 0,
          balanceDb    |-> jlimit(-24, 24,
                                  gainToDecibels(rmsBlockR) - gainToDecibels(rmsBlockL)),
          lissa        |-> LissajousPoints(b) ]

\* what processBlock has computed when it reaches the lock: p is the private
\* state at line 1029
Outcome(p, b, frameBase, momentaryLufs, shortTermLufs) ==
    [ priv   |-> RunFft(DrainHistory(p, shortTermLufs), BlockLen(b), frameBase),
      spins  |-> HistoryLoopSpins(p),
      frames |-> IF HistoryLoopSpins(p) THEN 0
                 ELSE FftFrames(p.fftSize, p.fftInputPos, p.fftHop, BlockLen(b)),
      pend   |-> [ sr |-> 0, numCh |-> b.numCh, L |-> b.L,
                   R |-> IF b.numCh > 1 THEN b.R ELSE b.L,
                   momentaryLufs |-> momentaryLufs,
                   shortTermLufs |-> shortTermLufs,
                   historyUpdates |-> HistoryUpdates(p),
                   spectrumFrameUpdated |->
                       ~HistoryLoopSpins(p)
                       /\ FftFrames(p.fftSize, p.fftInputPos, p.fftHop, BlockLen(b)) > 0,
                   clippedL |-> Clipped(b.L),
                   clippedR |-> b.numCh > 1 /\ Clipped(b.R),
                   stereo |-> StereoMetrics(b) ] ]

\* lines 1023-1024 onwards: p is the private state at line 984
ComputeFrom(p, b, frameBase, momentaryLufs, shortTermLufs) ==
    Outcome(TrackMaxima(p, BlockLen(b), momentaryLufs, shortTermLufs),
            b, frameBase, momentaryLufs, shortTermLufs)

\* lines 980 onwards: p is the private state at line 977
ComputeLoudness(p, b, frameBase) ==
    ComputeFrom(p, b, frameBase,
                BlockLufs(MonoEnergy(b), p.momentaryEnergy),
                BlockLufs(MonoEnergy(b), p.shortTermEnergy))

\* lines 884-1092 of processBlock: the private state it leaves, what the block
\* publishes later, and whether the loop at line 1030 is left
Compute(p, b, frameBase) ==
    ComputeLoudness(
        SmoothAccumulators(IntegrateSamples(StorePeaks(p, b), b.sq),
                           BlockLen(b), MonoEnergy(b)),
        b, frameBase)

----------------------------------------------------------------------------
(* processBlock, the part under shared.lock.                               *)

RECURSIVE CopyCircular(_, _, _)
\* the while loop that copies a channel into the audio history from destPos
CopyCircular(vec, destPos, samples) ==
    IF samples = <<>> THEN vec
    ELSE CopyCircular([vec EXCEPT ![destPos] = Head(samples)],
                      (destPos + 1) % Size(vec), Tail(samples))

WriteAudioHistory(sh, pend) ==
    LET totalSamples == Size(sh.audioHistory[0])
        n == Len(pend.L)
    IN  IF totalSamples > 0
        THEN [sh EXCEPT
                !.audioHistory =
                    [ch \in 0 .. 1 |->
                       IF ch >= pend.numCh THEN sh.audioHistory[ch]
                       ELSE CopyCircular(sh.audioHistory[ch], sh.writePosition,
                                         IF ch = 0 THEN pend.L ELSE pend.R)],
                !.writePosition = (sh.writePosition + n) % totalSamples,
                !.hasWrapped = sh.hasWrapped \/ (sh.writePosition + n >= totalSamples)]
        ELSE sh

\* std::sqrt (jmax (0.0f, bandAccum * invSamples)), in twentieths, rounded down
BandRms(bandAccum, samplesPerBucket) ==
    Isqrt(jmax(0, (100 * bandAccum) \div samplesPerBucket))

\* IIR::Filter::processSample of the four band filters of one channel, each
\* reduced to one tap of memory: the low-passes add the previous input, the
\* high-passes subtract it.  out lists the low, mid and high band outputs.
BandFilters(f, sample) ==
    LET midHighOut == sample - f.midHigh
    IN  [ state |-> [ low |-> sample, midHigh |-> sample,
                      midLow |-> midHighOut, high |-> sample ],
          out   |-> [band \in 0 .. 2 |->
                       CASE band = 0 -> sample + f.low
                         [] band = 1 -> midHighOut + f.midLow
                         [] band = 2 -> sample - f.high] ]

RECURSIVE WaveformLoop(_, _, _)
\* the per-sample loop of the waveform builder on the fields it reads and
\* writes; closed lists the buckets it stored, in order, and outOfRange tells
\* whether it wrote past the end of a ring (history variables)
WaveformLoop(w, Ls, Rs) ==
    IF Ls = <<>> THEN w
    ELSE
      LET sampleL == Head(Ls)
          sampleR == Head(Rs)
          curMin == [ch \in 0 .. 1 |->
                       jmin(w.waveformCurrentMin[ch], IF ch = 0 THEN sampleL ELSE sampleR)]
          curMax == [ch \in 0 .. 1 |->
                       jmax(w.waveformCurrentMax[ch], IF ch = 0 THEN sampleL ELSE sampleR)]
          filtered == [ch \in 0 .. 1 |->
                         BandFilters(w.filters[ch], IF ch = 0 THEN sampleL ELSE sampleR)]
          bandAccum == [ch \in 0 .. 1 |-> [band \in 0 .. 2 |->
                          w.waveformBandAccum[ch][band]
                            + filtered[ch].out[band] * filtered[ch].out[band]]]
          filters == [ch \in 0 .. 1 |-> filtered[ch].state]
          counter == w.waveformSampleCounter + 1
          bucketCapacity == Size(w.waveformMin[0])
      IN  IF counter >= w.waveformSamplesPerBucket
          THEN WaveformLoop(
                 [w EXCEPT
                    !.waveformMin = [ch \in 0 .. 1 |->
                        [w.waveformMin[ch] EXCEPT ![w.waveformWriteIndex] = curMin[ch]]],
                    !.waveformMax = [ch \in 0 .. 1 |->
                        [w.waveformMax[ch] EXCEPT ![w.waveformWriteIndex] = curMax[ch]]],
                    !.waveformBandEnergy = [ch \in 0 .. 1 |-> [band \in 0 .. 2 |->
                        [w.waveformBandEnergy[ch][band] EXCEPT ![w.waveformWriteIndex] =
                            BandRms(bandAccum[ch][band], w.waveformSamplesPerBucket)]]],
                    !.waveformBandAccum = [ch \in 0 .. 1 |-> [band \in 0 .. 2 |-> 0]],
                    !.filters = filters,
                    !.waveformWriteIndex = (w.waveformWriteIndex + 1) % bucketCapacity,
                    !.waveformFilled = jmin(bucketCapacity, w.waveformFilled + 1),
                    !.waveformSampleCounter = 0,
                    !.waveformCurrentMin = [ch \in 0 .. 1 |-> 2],
                    !.waveformCurrentMax = [ch \in 0 .. 1 |-> -2],
                    !.closed = Append(w.closed, <<curMin[0], curMax[0], curMin[1], curMax[1]>>),
                    !.outOfRange = w.outOfRange
                        \/ \E ch \in 0 .. 1, band \in 0 .. 2 :
                              w.waveformWriteIndex >= Size(w.waveformBandEnergy[ch][band])],
                 Tail(Ls), Tail(Rs))
          ELSE WaveformLoop(
                 [w EXCEPT !.waveformSampleCounter = counter,
                           !.waveformCurrentMin = curMin,
                           !.waveformCurrentMax = curMax,
                           !.waveformBandAccum = bandAccum,
                           !.filters = filters],
                 Tail(Ls), Tail(Rs))

\* a waveform builder that starts every block on a bucket boundary
WaveformFieldsPerBlock(sh, p) ==
    [ waveformMin |-> sh.waveformMin, waveformMax |-> sh.waveformMax,
      waveformBandEnergy |-> sh.waveformBandEnergy,
      waveformBandAccum |-> sh.waveformBandAccum,
      filters |-> p.waveformFilters,
      waveformSamplesPerBucket |-> sh.waveformSamplesPerBucket,
      waveformWriteIndex |-> sh.waveformWriteIndex,
      waveformFilled |-> sh.waveformFilled,
      waveformSampleCounter |-> 0,
      waveformCurrentMin |-> sh.waveformCurrentMin,
      waveformCurrentMax |-> sh.waveformCurrentMax,
      closed |-> <<>>, outOfRange |-> FALSE ]

WaveformFields(sh, p) ==
    [ waveformMin |-> sh.waveformMin, waveformMax |-> sh.waveformMax,
      waveformBandEnergy |-> sh.waveformBandEnergy,
      waveformBandAccum |-> sh.waveformBandAccum,
      filters |-> p.waveformFilters,
      waveformSamplesPerBucket |-> sh.waveformSamplesPerBucket,
      waveformWriteIndex |-> sh.waveformWriteIndex,
      waveformFilled |-> sh.waveformFilled,
      waveformSampleCounter |-> sh.waveformSampleCounter,
      waveformCurrentMin |-> sh.waveformCurrentMin,
      waveformCurrentMax |-> sh.waveformCurrentMax,
      closed |-> <<>>, outOfRange |-> FALSE ]

WaveformResult(sh, pend, p) ==
    IF sh.waveformSamplesPerBucket > 0 /\ Size(sh.waveformMin[0]) > 0
    THEN WaveformLoop(WaveformFields(sh, p), pend.L, pend.R)
    ELSE WaveformFields(sh, p)

WriteWaveform(sh, pend, p) ==
    LET w == WaveformResult(sh, pend, p)
    IN  [sh EXCEPT !.waveformMin = w.waveformMin,
                   !.waveformMax = w.waveformMax,
                   !.waveformBandEnergy = w.waveformBandEnergy,
                   !.waveformBandAccum = w.waveformBandAccum,
                   !.waveformWriteIndex = w.waveformWriteIndex,
                   !.waveformFilled = w.waveformFilled,
                   !.waveformSampleCounter = w.waveformSampleCounter,
                   !.waveformCurrentMin = w.waveformCurrentMin,
                   !.waveformCurrentMax = w.waveformCurrentMax]

\* the band filters after the waveform builder has run them over the block
RunWaveformFilters(p, sh, pend) ==
    [p EXCEPT !.waveformFilters = WaveformResult(sh, pend, p).filters]

\* 0.5f * (sampleL + sampleR)
OscValue(sampleL, sampleR) == (sampleL + sampleR) \div 2

RECURSIVE OscLoopUnsaturated(_, _, _)
\* an oscilloscope push whose filled count keeps counting
OscLoopUnsaturated(sh, Ls, Rs) ==
    IF Ls = <<>> THEN sh
    ELSE
      LET oscSize == Size(sh.oscilloscopeBuffer)
      IN  OscLoopUnsaturated(
            [sh EXCEPT
               !.oscilloscopeBuffer[sh.oscilloscopeWriteIndex] = OscValue(Head(Ls), Head(Rs)),
               !.oscilloscopeWriteIndex = (sh.oscilloscopeWriteIndex + 1) % oscSize,
               !.oscilloscopeFilled = sh.oscilloscopeFilled + 1],
            Tail(Ls), Tail(Rs))

RECURSIVE OscLoop(_, _, _)
OscLoop(sh, Ls, Rs) ==
    IF Ls = <<>> THEN sh
    ELSE
      LET oscSize == Size(sh.oscilloscopeBuffer)
      IN  OscLoop(
            [sh EXCEPT
               !.oscilloscopeBuffer[sh.oscilloscopeWriteIndex] = OscValue(Head(Ls), Head(Rs)),
               !.oscilloscopeWriteIndex = (sh.oscilloscopeWriteIndex + 1) % oscSize,
               !.oscilloscopeFilled = jmin(oscSize, sh.oscilloscopeFilled + 1)],
            Tail(Ls), Tail(Rs))

WriteOscilloscope(sh, pend) ==
    IF Size(sh.oscilloscopeBuffer) > 0 THEN OscLoop(sh, pend.L, pend.R) ELSE sh

\* a column write that wraps the position and never raises the wrapped flag
WriteColumnWithoutFlag(sh, frame) ==
    LET width == Size(sh.spectrogramHistory)
    IN  IF width > 0
        THEN [sh EXCEPT !.spectrogramHistory[sh.spectrogramWritePosition] = frame,
                        !.spectrogramWritePosition =
                            (sh.spectrogramWritePosition + 1) % width]
        ELSE sh

\* lines 1233-1242: one column at the write position, which then advances
WriteSpectrogramColumn(sh, frame) ==
    LET width == Size(sh.spectrogramHistory)
        next  == (sh.spectrogramWritePosition + 1) % width
    IN  IF width > 0
        THEN [sh EXCEPT !.spectrogramHistory[sh.spectrogramWritePosition] = frame,
                        !.spectrogramWritePosition = next,
                        !.spectrogramWrapped = sh.spectrogramWrapped \/ next = 0]
        ELSE sh

WriteSpectrum(sh, pend, p) ==
    IF pend.spectrumFrameUpdated
    THEN WriteSpectrogramColumn(
           [sh EXCEPT !.spectrum = p.fftSpectrumFrame,
                      !.spectrumAverages = p.fftSpectrumFrame],
           p.fftSpectrumFrame)
    ELSE sh

\* lines 1097-1243
PublishRings(sh, pend, p, parity) ==
    [WriteSpectrum(WriteOscilloscope(WriteWaveform(WriteAudioHistory(sh, pend), pend, p), pend),
                   pend, p)
       EXCEPT !.stampRings = parity]

\* lines 1245-1268.  The RMS figures, the balance and the Lissajous points
\* are copied as they stand in the pending record (lines 1247, 1259-1263); the
\* shared record here keeps the correlation, the width and the point count.
PublishScalars(sh, pend, p, parity) ==
    [sh EXCEPT !.momentaryLufs = pend.momentaryLufs,
               !.shortTermLufs = pend.shortTermLufs,
               !.integratedLufs = p.integratedLoudness,
               !.loudnessRange = p.loudnessRangeValue,
               !.maxMomentary = p.maxMomentaryLufs,
               !.maxShortTerm = p.maxShortTermLufs,
               !.clippedL = pend.clippedL,
               !.clippedR = pend.clippedR,
               !.correlation = pend.stereo.corr,
               !.stereoWidth = pend.stereo.stereoWidth,
               !.lissajousCount = Len(pend.stereo.lissa),
               !.stampScalars = parity]

RECURSIVE HistoryLoop(_, _, _)
HistoryLoop(sh, value, updates) ==
    IF updates = 0 THEN sh
    ELSE
      LET capacity == Size(sh.loudnessHistory)
      IN  HistoryLoop(
            [sh EXCEPT !.loudnessHistory[sh.loudnessHistoryWrite] = value,
                       !.loudnessHistoryWrite = (sh.loudnessHistoryWrite + 1) % capacity,
                       !.loudnessHistoryFilled = jmin(capacity, sh.loudnessHistoryFilled + 1)],
            value, updates - 1)

\* lines 1270-1279
PublishHistory(sh, pend, parity) ==
    [(IF pend.historyUpdates > 0 /\ Size(sh.loudnessHistory) > 0
      THEN HistoryLoop(sh, pend.shortTermLufs, pend.historyUpdates)
      ELSE sh)
       EXCEPT !.stampHistory = parity]

----------------------------------------------------------------------------
(* prepareToPlay.                                                          *)

\* std::exp (-1.0f / (seconds * sampleRate)) for any sample rate, given its
\* value coeff at the positive rates: exp (-inf) = 0 at rate 0, and the
\* reciprocal (above 1) at the negated rate
Coefficient(coeff, sr) ==
    IF sr > 0 THEN coeff
    ELSE IF sr = 0 THEN <<0, 1>>
    ELSE <<coeff[2], coeff[1]>>

\* lines 638-663: setBallistics (10.0f, 300.0f) and the private loudness
\* state, before the lock is taken
PreparePrivate(p, sr) ==
    [p EXCEPT
       !.peakRiseCoeff = Coefficient(PeakRiseCoeff, sr),
       !.peakFallCoeff = Coefficient(PeakFallCoeff, sr),
       !.integratedBlockSamples = jmax(1, sr * IntegratedBlockIntervals),
       !.integratedBlockEnergies = Assign(jmax(1, IntegratedBlocks), 1000),
       !.integratedEnergyAccumulator = 0,
       !.integratedSampleCounter = 0,
       !.integratedWriteIndex = 0,
       !.integratedFilled = 0,
       !.integratedLoudness = -100,
       !.loudnessHistoryIntervalSamples = jmax(1, sr),
       !.loudnessHistorySampleCounter = 0,
       !.loudnessHistoryCapacity = jmax(1, LoudnessHistorySpan),
       !.shortTermHistoryBuffer = Assign(jmax(1, LoudnessHistorySpan), -100),
       !.shortTermHistoryWriteIndex = 0,
       !.shortTermHistoryFilled = 0,
       !.loudnessRangeValue = 0,
       !.maxMomentaryLufs = -100,
       !.maxShortTermLufs = -100]

\* lines 665-719: the shared state, under shared.lock.  spectrum and
\* spectrumAverages are resized, which keeps what they hold.
PrepareShared(sh, p, sr) ==
    LET historySamples == jmax(1, sr * AudioHistoryIntervals)
        hopSamples     == jmax(1, p.fftSize \div 4)
        historyWidth   == jmax(1, CeilDiv(SpectrogramIntervals * sr, hopSamples))
    IN  [sh EXCEPT
           !.audioHistory = [ch \in 0 .. 1 |-> Assign(historySamples, 0)],
           !.writePosition = 0,
           !.hasWrapped = FALSE,
           !.waveformSamplesPerBucket = jmax(1, historySamples \div kWaveformResolution),
           !.waveformMin = [ch \in 0 .. 1 |-> Assign(kWaveformResolution, 0)],
           !.waveformMax = [ch \in 0 .. 1 |-> Assign(kWaveformResolution, 0)],
           !.waveformCurrentMin = [ch \in 0 .. 1 |-> 2],
           !.waveformCurrentMax = [ch \in 0 .. 1 |-> -2],
           !.waveformBandEnergy =
               [ch \in 0 .. 1 |-> [band \in 0 .. 2 |-> Assign(kWaveformResolution, 0)]],
           !.waveformBandAccum = [ch \in 0 .. 1 |-> [band \in 0 .. 2 |-> 0]],
           !.waveformWriteIndex = 0,
           !.waveformFilled = 0,
           !.waveformSampleCounter = 0,
           !.oscilloscopeBuffer = Assign(kOscilloscopeBufferSize, 0),
           !.oscilloscopeWriteIndex = 0,
           !.oscilloscopeFilled = 0,
           !.spectrogramHistory = Assign(historyWidth, 0),
           !.spectrogramWritePosition = 0,
           !.spectrogramWrapped = FALSE,
           !.momentaryLufs = -100,
           !.shortTermLufs = -100,
           !.integratedLufs = -100,
           !.loudnessRange = 0,
           !.maxMomentary = -100,
           !.maxShortTerm = -100,
           !.clippedL = FALSE,
           !.clippedR = FALSE,
           !.lissajousCount = 0,
           !.correlation = 0,
           !.stereoWidth = 0,
           !.loudnessHistory = Assign(p.loudnessHistoryCapacity, -100),
           !.loudnessHistoryWrite = 0,
           !.loudnessHistoryFilled = 0]

\* a prepare that leaves the two energy accumulators as they are
PrepareTailKeepingAccumulators(p) ==
    [p EXCEPT
       !.waveformFilters = [ch \in 0 .. 1 |-> FilterReset],
       !.fftSpectrumFrame = 0,
       !.fftInputSize = p.fftSize,
       !.fftInputPos = 0,
       !.fftHop = jmax(1, p.fftSize \div 4),
       !.momentaryCoeff = MomentaryCoeff,
       !.shortTermCoeff = ShortTermCoeff]

\* lines 721-778: the FFT buffers, the accumulators and the coefficients
PrepareTail(p) ==
    [p EXCEPT
       !.waveformFilters = [ch \in 0 .. 1 |-> FilterReset],
       !.fftSpectrumFrame = 0,
       !.fftInputSize = p.fftSize,
       !.fftInputPos = 0,
       !.fftHop = jmax(1, p.fftSize \div 4),
       !.momentaryEnergy = 1000,
       !.shortTermEnergy = 1000,
       !.momentaryCoeff = MomentaryCoeff,
       !.shortTermCoeff = ShortTermCoeff]

\* lines 774-775 for the sample rate passed to prepareToPlay
PrepareCoefficients(p, sr) ==
    [p EXCEPT !.momentaryCoeff = Coefficient(MomentaryCoeff, sr),
              !.shortTermCoeff = Coefficient(ShortTermCoeff, sr)]

----------------------------------------------------------------------------
(* fillSnapshot, requestAudioDump, resetLoudnessStatistics under the lock. *)

\* the copy fillSnapshot makes once its try-lock has succeeded
CopySnapshot(snap, sh, includeAudioHistory) ==
    LET bucketCapacity == Size(sh.waveformMin[0])
        validWaveform  == jmin(sh.waveformFilled, bucketCapacity)
        waveStart      == IF validWaveform > 0
                          THEN RingStart(sh.waveformWriteIndex, validWaveform, bucketCapacity)
                          ELSE 0
        oscSize        == Size(sh.oscilloscopeBuffer)
        oscValid       == jmin(oscSize, sh.oscilloscopeFilled)
        oscStart       == IF oscValid > 0
                          THEN RingStart(sh.oscilloscopeWriteIndex, oscValid, oscSize)
                          ELSE 0
        capacity       == Size(sh.loudnessHistory)
        loudnessValid  == jmin(capacity, sh.loudnessHistoryFilled)
        loudnessStart  == IF loudnessValid > 0
                          THEN RingStart(sh.loudnessHistoryWrite, loudnessValid, capacity)
                          ELSE 0
        hasSpectrogram == Size(sh.spectrogramHistory) > 0
    IN  [snap EXCEPT
           !.writePosition = sh.writePosition,
           !.bufferWrapped = sh.hasWrapped,
           !.audioHistory =
               IF includeAudioHistory /\ Size(sh.audioHistory[0]) > 0 THEN sh.audioHistory
               ELSE IF ~includeAudioHistory THEN [ch \in 0 .. 1 |-> Assign(0, 0)]
               ELSE @,
           !.waveformSamplesPerBucket = sh.waveformSamplesPerBucket,
           !.waveformLeftMins  = Linearise(sh.waveformMin[0], waveStart, validWaveform),
           !.waveformLeftMaxs  = Linearise(sh.waveformMax[0], waveStart, validWaveform),
           !.waveformRightMins = Linearise(sh.waveformMin[1], waveStart, validWaveform),
           !.waveformRightMaxs = Linearise(sh.waveformMax[1], waveStart, validWaveform),
           !.oscilloscope = Linearise(sh.oscilloscopeBuffer, oscStart, oscValid),
           !.spectrum = sh.spectrumAverages,
           !.spectrogram = IF hasSpectrogram THEN sh.spectrogramHistory ELSE @,
           !.spectrogramWritePosition =
               IF hasSpectrogram THEN sh.spectrogramWritePosition ELSE @,
           !.spectrogramWrapped = IF hasSpectrogram THEN sh.spectrogramWrapped ELSE @,
           !.momentaryLufs = sh.momentaryLufs,
           !.shortTermLufs = sh.shortTermLufs,
           !.integratedLufs = sh.integratedLufs,
           !.loudnessRange = sh.loudnessRange,
           !.maxMomentaryLufs = sh.maxMomentary,
           !.maxShortTermLufs = sh.maxShortTerm,
           !.clipLeft = sh.clippedL,
           !.clipRight = sh.clippedR,
           !.loudnessHistory = Linearise(sh.loudnessHistory, loudnessStart, loudnessValid),
           !.stampRings = sh.stampRings,
           !.stampScalars = sh.stampScalars,
           !.stampHistory = sh.stampHistory]

\* the copy requestAudioDump makes once its try-lock has succeeded
CopyDump(sh) == [dest |-> sh.audioHistory, hasWrapped |-> sh.hasWrapped]

\* a reset that also restarts the two energy accumulators
ResetPrivateWithAccumulators(p) ==
    [p EXCEPT !.maxMomentaryLufs = -100, !.maxShortTermLufs = -100,
              !.peakL = <<0, 1>>, !.peakR = <<0, 1>>,
              !.momentaryEnergy = 1000, !.shortTermEnergy = 1000]

\* resetLoudnessStatistics, lines 1758-1761: written before the lock is taken
ResetPrivate(p) ==
    [p EXCEPT !.maxMomentaryLufs = -100, !.maxShortTermLufs = -100,
              !.peakL = <<0, 1>>, !.peakR = <<0, 1>>]

\* resetLoudnessStatistics, lines 1763-1770: written under the lock
ResetShared(sh) ==
    [sh EXCEPT !.maxMomentary = -100,
               !.maxShortTerm = -100,
               !.clippedL = FALSE,
               !.clippedR = FALSE,
               !.loudnessHistoryWrite = 0,
               !.loudnessHistoryFilled = 0,
               !.loudnessHistory = Assign(Size(sh.loudnessHistory), -100)]

\* SpectrogramMeter::refreshImage: the columns of a snapshot in the order
\* they are drawn, left to right
OrderedColumns(snap) ==
    LET totalColumns     == Size(snap.spectrogram)
        wrappedHistory   == snap.spectrogramWrapped /\ totalColumns > 0
        availableColumns == IF wrappedHistory THEN totalColumns
                            ELSE jlimit(0, totalColumns, snap.spectrogramWritePosition)
        startIndex       == IF wrappedHistory THEN snap.spectrogramWritePosition ELSE 0
    IN  IF totalColumns <= 0 \/ availableColumns <= 0 THEN <<>>
        ELSE IF wrappedHistory
        THEN [column \in 1 .. availableColumns |->
                snap.spectrogram[(startIndex + column - 1) % totalColumns]]
        ELSE [column \in 1 .. availableColumns |-> snap.spectrogram[column - 1]]

----------------------------------------------------------------------------
(* Inputs.                                                                 *)

\* the samples at position k of the stream since the last prepare, left and
\* right, in -1.0 .. 1.0; their sum is even, so the mono mix is a whole number
Sample(k) == (k % 5) - 2

SampleRight(k) == IF k % 2 = 0 THEN Sample(k) ELSE 0 - Sample(k)

\* the K-weighted mean-square levels a block can carry: silence, the level of
\* loudness -70 exactly, one just above the gate, and a loud one
EnergyLevels == {0, 117246, 150000, 3998696}

\* a block of n samples that continues the stream at position base
MakeBlock(numCh, n, base, level) ==
    [ numCh |-> numCh,
      L  |-> [i \in 1 .. n |-> Sample(base + i - 1)],
      R  |-> [i \in 1 .. n |-> SampleRight(base + i - 1)],
      sq |-> [i \in 1 .. n |-> level] ]

\* the blocks the host can deliver next: at most maxLen samples, and at most
\* maxTotal samples since the last prepare
Blocks(channels, levels, maxLen, maxTotal) ==
    { MakeBlock(numCh, n, ghost.total, level) :
        numCh \in channels, n \in 0 .. jmin(maxLen, maxTotal - ghost.total),
        level \in levels }

\* the stamp the next block leaves on what it publishes
NextStamp == IF ghost.parity = 1 THEN 2 ELSE 1

----------------------------------------------------------------------------
(* History variables.                                                      *)

Repeat(value, count) == [i \in 1 .. count |-> value]

\* what a block adds to the private logs: the squares it integrated and the
\* short-term values it pushed
LogPrivate(g, b, res) ==
    [g EXCEPT !.total = g.total + BlockLen(b),
              !.lastL = b.L,
              !.frames = g.frames + res.frames,
              !.sqAll = g.sqAll \o b.sq,
              !.stPushed = g.stPushed
                  \o Repeat(jlimit(-100, 10, res.pend.shortTermLufs), res.pend.historyUpdates)]

\* what publishing a block adds to the logs of the shared rings
LogShared(g, sh, pend, p) ==
    [g EXCEPT !.oscPushed = g.oscPushed
                  \o [i \in 1 .. Len(pend.L) |-> OscValue(pend.L[i], pend.R[i])],
              !.wavePushed = g.wavePushed \o WaveformResult(sh, pend, p).closed,
              !.waveFed = g.waveFed
                  \o [i \in 1 .. Len(pend.L) |-> <<pend.L[i], pend.R[i]>>],
              !.histPushed = g.histPushed \o Repeat(pend.shortTermLufs, pend.historyUpdates),
              !.colsWritten = IF pend.spectrumFrameUpdated
                              THEN Append(g.colsWritten, p.fftSpectrumFrame)
                              ELSE g.colsWritten]

\* where a watched resetLoudnessStatistics stands, and the largest momentary
\* and short-term loudness of the blocks that ran during or after it
LogResetStart(g, inFlight, pend) ==
    IF g.watch
    THEN [g EXCEPT !.resetPhase = "running", !.laterBlock = FALSE,
                   !.sinceMomentary = IF inFlight THEN pend.momentaryLufs ELSE -100,
                   !.sinceShortTerm = IF inFlight THEN pend.shortTermLufs ELSE -100]
    ELSE g

LogResetReturn(g) == IF g.watch THEN [g EXCEPT !.resetPhase = "returned"] ELSE g

LogBlockSince(g, pend) ==
    IF g.watch /\ g.resetPhase # "none"
    THEN [g EXCEPT !.sinceMomentary = jmax(g.sinceMomentary, pend.momentaryLufs),
                   !.sinceShortTerm = jmax(g.sinceShortTerm, pend.shortTermLufs),
                   !.laterBlock = g.resetPhase = "returned"]
    ELSE g

LogPrepare(g) ==
    [g EXCEPT !.total = 0, !.frames = 0, !.oscPushed = <<>>, !.wavePushed = <<>>,
              !.waveFed = <<>>, !.histPushed = <<>>, !.colsWritten = <<>>, !.sqAll = <<>>, !.stPushed = <<>>]

LogSnapshot(g) ==
    [g EXCEPT !.snapOsc = g.oscPushed, !.snapWave = g.wavePushed,
              !.snapHist = g.histPushed, !.snapCols = g.colsWritten,
              !.missed = 0, !.missedIn = 0]

\* a watched poll that kept the previous snapshot.  A poll period is far
\* longer than one locked section, so two polls in a row count as both missed
\* only when they met the lock held for two different blocks (told apart by
\* the stamp).
LogMissed(g) ==
    IF g.polls
    THEN [g EXCEPT !.missed = IF g.missed = 0 THEN 1
                              ELSE IF g.missedIn # g.parity THEN 2 ELSE g.missed,
                   !.missedIn = g.parity]
    ELSE g

----------------------------------------------------------------------------
(* The operations, each as one step (no other thread runs meanwhile).      *)

Publish(sh, pend, p, stamp) ==
    PublishHistory(PublishScalars(PublishRings(sh, pend, p, stamp), pend, p, stamp),
                   pend, stamp)

Prepare(sr) ==
    /\ pcAudio = "idle" /\ pcUI = "idle"
    /\ priv' = PrepareCoefficients(PrepareTail(PreparePrivate(priv, sr)), sr)
    /\ shared' = PrepareShared(shared, priv', sr)
    /\ ghost' = LogPrepare(ghost)
    /\ UNCHANGED <<lock, snapshot, dump, pcAudio, pcUI, pending, uiResult>>

\* the rest of processBlock once res is computed
Finish(b, res) ==
    /\ IF res.spins
       THEN /\ pcAudio' = "spin"
            /\ priv' = res.priv
            /\ UNCHANGED <<shared, ghost>>
       ELSE /\ pcAudio' = "idle"
            /\ priv' = RunWaveformFilters(res.priv, shared, res.pend)
            /\ shared' = Publish(shared, res.pend, res.priv, shared.stampRings)
            /\ ghost' = LogShared(LogPrivate(ghost, b, res), shared, res.pend, res.priv)

ProcessBlock(b) ==
    /\ pcAudio = "idle" /\ pcUI = "idle"
    /\ Finish(b, Compute(priv, b, ghost.frames))
    /\ UNCHANGED <<lock, snapshot, dump, pcUI, pending, uiResult>>

FillSnapshot(includeAudioHistory) ==
    /\ pcUI = "idle" /\ lock = "none"
    /\ pcAudio \in {"idle", "spin"}
    /\ snapshot' = CopySnapshot(snapshot, shared, includeAudioHistory)
    /\ uiResult' = "fs_filled"
    /\ ghost' = LogSnapshot(ghost)
    /\ UNCHANGED <<priv, shared, lock, dump, pcAudio, pcUI, pending>>

ResetLoudnessStatistics ==
    /\ pcUI = "idle" /\ lock = "none"
    /\ pcAudio \in {"idle", "spin"}
    /\ priv' = ResetPrivate(priv)
    /\ shared' = ResetShared(shared)
    /\ ghost' = [ghost EXCEPT !.histPushed = <<>>]
    /\ UNCHANGED <<lock, snapshot, dump, pcAudio, pcUI, pending, uiResult>>

Next ==
    \/ \E sr \in SampleRates : Prepare(sr)
    \/ \E b \in Blocks({2}, {3998696}, MaxBlock, MaxTotal) : ProcessBlock(b)
    \/ FillSnapshot(FALSE)
    \/ ResetLoudnessStatistics

Spec == Init /\ [][Next]_vars

\* the loudness engine alone, over every level
NextLoud ==
    \/ \E sr \in SampleRates : Prepare(sr)
    \/ \E b \in Blocks({1}, EnergyLevels, MaxBlock, MaxLoudTotal) : ProcessBlock(b)

SpecLoud == Init /\ [][NextLoud]_vars

\* sample rates a host must not pass, and may
InvalidSampleRates == {0, -1}

\* both smoothing coefficients at most 1: the accumulators stay within the
\* numbers of the model
StableCoefficients ==
    /\ priv.momentaryCoeff[1] <= priv.momentaryCoeff[2]
    /\ priv.shortTermCoeff[1] <= priv.shortTermCoeff[2]

\* prepareToPlay with any sample rate
NextConfig ==
    \/ \E sr \in SampleRates \cup InvalidSampleRates : Prepare(sr)
    \/ /\ StableCoefficients
       /\ \E b \in Blocks({2}, {3998696}, MaxBlock, MaxTotal) : ProcessBlock(b)
    \/ FillSnapshot(FALSE)

SpecConfig == Init /\ [][NextConfig]_vars

\* the sample magnitudes of a steady signal: silence and full scale
Amplitudes == {0, 2}

\* a block of n samples, every one of them amp on both channels
LevelBlock(numCh, n, amp) ==
    [ numCh |-> numCh,
      L  |-> [i \in 1 .. n |-> amp],
      R  |-> [i \in 1 .. n |-> amp],
      sq |-> [i \in 1 .. n |-> IF amp = 0 THEN 0 ELSE 3998696] ]

LevelBlocks ==
    { LevelBlock(2, n, amp) :
        n \in 0 .. jmin(MaxBlock, MaxTotal - ghost.total), amp \in Amplitudes }

\* a host that delivers blocks of steady signals
NextPeak ==
    \/ \E sr \in SampleRates : Prepare(sr)
    \/ \E b \in LevelBlocks : ProcessBlock(b)

SpecPeak == Init /\ [][NextPeak]_vars

----------------------------------------------------------------------------
(* The FFT stage with a wider window.                                      *)

\* the processor after construction, its FFT of the wider size
InitFft ==
    /\ priv = [PrivInit EXCEPT !.fftSize = WideFftSize,
                               !.fftHop = jmax(1, WideFftSize \div 4)]
    /\ shared = SharedInit
    /\ lock = "none"
    /\ snapshot = SnapshotInit
    /\ dump = DumpInit
    /\ pcAudio = "idle"
    /\ pcUI = "idle"
    /\ pending = NoPending
    /\ uiResult = "none"
    /\ ghost = GhostInit

NextFft ==
    \/ \E sr \in SampleRates : Prepare(sr)
    \/ \E b \in Blocks({1}, {3998696}, MaxBlock, MaxFftTotal) : ProcessBlock(b)

SpecFft == InitFft /\ [][NextFft]_vars

----------------------------------------------------------------------------
(* Input that falls silent.                                                *)

\* the mean-square level the K-weighting filters still put out when the
\* input stops: nothing, or a level above the gate
TailLevels == {0, 150000}

\* filters that never ring out
RingOutNever(level) == level

\* the filters ring out: per block the level falls to a thousandth, and
\* ScopedNoDenormals flushes it to 0
RingOut(level) == level \div 1000

\* from now on the host delivers zeros only; the logs end here
InputStops ==
    /\ ghost.input = "signal"
    /\ \E level \in TailLevels :
          ghost' = [GhostInit EXCEPT !.input = "silent", !.tail = level]
    /\ UNCHANGED <<priv, shared, lock, snapshot, dump, pcAudio, pcUI, pending, uiResult>>

\* a block of n zeros; the filters' output is at the level the tail has
SilentBlock(n) ==
    [ numCh |-> 1,
      L  |-> [i \in 1 .. n |-> 0],
      R  |-> [i \in 1 .. n |-> 0],
      sq |-> [i \in 1 .. n |-> ghost.tail] ]

\* what processBlock leaves once res is computed: the private state, the
\* shared state it has published into unless the loop at line 1030 is never
\* left, and whether it is
SilenceOutcome(res) ==
    [ priv   |-> IF res.spins THEN res.priv
                 ELSE RunWaveformFilters(res.priv, shared, res.pend),
      spins  |-> res.spins,
      shared |-> IF res.spins THEN shared
                 ELSE Publish(shared, res.pend, res.priv, shared.stampRings) ]

\* processBlock on a block of zeros.  Its outcome is the one element of the
\* bag below: BagOfAll computes it once per state, also where the fairness
\* condition asks whether the step is enabled.
ProcessSilence(b) ==
    /\ ghost.input = "silent"
    /\ pcAudio = "idle" /\ pcUI = "idle"
    /\ \E out \in DOMAIN BagOfAll(LAMBDA x : SilenceOutcome(Compute(priv, x, ghost.frames)),
                                   SetToBag({b})) :
          /\ priv' = out.priv
          /\ shared' = out.shared
          /\ pcAudio' = IF out.spins THEN "spin" ELSE "idle"
    /\ ghost' = [ghost EXCEPT !.tail = IF BlockLen(b) > 0 THEN RingOut(@) ELSE @]
    /\ UNCHANGED <<lock, snapshot, dump, pcUI, pending, uiResult>>

\* the host delivers a block of zeros that is not empty
SilenceArrives == \E n \in 1 .. MaxBlock : ProcessSilence(SilentBlock(n))

NextSilence ==
    \/ /\ ghost.input = "signal"
       /\ \E sr \in SampleRates : Prepare(sr)
    \/ /\ ghost.input = "signal"
       /\ \E b \in Blocks({1}, {3998696}, MaxBlock, MaxTotal) : ProcessBlock(b)
    \/ InputStops
    \/ ProcessSilence(SilentBlock(0))
    \/ SilenceArrives

\* the host keeps calling processBlock with blocks that are not empty
SpecSilence == Init /\ [][NextSilence]_vars /\ WF_vars(SilenceArrives)

----------------------------------------------------------------------------
(* The two preference structs.                                             *)

RECURSIVE ClosestLoop(_, _, _, _)
\* lines 1722-1730: the loop over the allowed values
ClosestLoop(value, allowed, closest, smallestDiff) ==
    IF allowed = <<>> THEN closest
    ELSE IF Abs(value - Head(allowed)) < smallestDiff
         THEN ClosestLoop(value, Tail(allowed), Head(allowed), Abs(value - Head(allowed)))
         ELSE ClosestLoop(value, Tail(allowed), closest, smallestDiff)

sanitiseHistorySeconds(value, allowed) ==
    IF Len(allowed) = 0 THEN value
    ELSE ClosestLoop(value, allowed, allowed[1], Abs(value - allowed[1]))

\* lines 1736-1738
SanitisedLoudness(newState) ==
    [newState EXCEPT
       !.targetLufs = jlimit(-36, -6, newState.targetLufs),
       !.historySeconds = sanitiseHistorySeconds(newState.historySeconds, <<20, 60, 120>>)]

\* a sanitiser that keeps the two display flags of its argument
SanitisedStereoKeepingFlags(newState) ==
    [newState EXCEPT
       !.viewMode = IF newState.viewMode = 2 THEN 2 ELSE 1,
       !.displayMode = jlimit(1, 3, newState.displayMode),
       !.scopeScale = jlimit(5, 20, newState.scopeScale),
       !.historySeconds = sanitiseHistorySeconds(newState.historySeconds, <<3, 6, 12, 24>>),
       !.trailSeconds = jlimit(2, 30, newState.trailSeconds)]

\* lines 1744-1752
SanitisedStereo(newState) ==
    [newState EXCEPT
       !.viewMode = IF newState.viewMode = 2 THEN 2 ELSE 1,
       !.displayMode = jlimit(1, 3, newState.displayMode),
       !.scopeScale = jlimit(5, 20, newState.scopeScale),
       !.historySeconds = sanitiseHistorySeconds(newState.historySeconds, <<3, 6, 12, 24>>),
       !.trailSeconds = jlimit(2, 30, newState.trailSeconds),
       !.showDots = (jlimit(1, 3, newState.displayMode) = 2),
       !.persistence = (jlimit(1, 3, newState.displayMode) = 3)]

getLoudnessMeterState == priv.loudnessState

getStereoMeterState == priv.stereoState

setLoudnessMeterState(newState) ==
    /\ pcUI = "idle"
    /\ priv' = [priv EXCEPT !.loudnessState = SanitisedLoudness(newState)]
    /\ uiResult' = "loudness_set"
    /\ UNCHANGED <<shared, lock, snapshot, dump, pcAudio, pcUI, pending, ghost>>

setStereoMeterState(newState) ==
    /\ pcUI = "idle"
    /\ priv' = [priv EXCEPT !.stereoState = SanitisedStereo(newState)]
    /\ uiResult' = "stereo_set"
    /\ UNCHANGED <<shared, lock, snapshot, dump, pcAudio, pcUI, pending, ghost>>

\* the states an editor or a saved session can pass to the setters: values
\* below, inside and above every range, and between two allowed windows
LoudnessArguments ==
    [ targetLufs : {-37, -14, -5}, showRms : BOOLEAN, historySeconds : {20, 40, 60, 130} ]

StereoArguments ==
    [ viewMode : {0, 1, 2, 3}, displayMode : {0, 1, 2, 3, 4}, scopeScale : {4, 10},
      historySeconds : {6, 9, 30}, freeze : BOOLEAN, showDots : BOOLEAN,
      persistence : BOOLEAN, trailSeconds : {6, 31} ]

Arguments ==
    { [ kind |-> "loudness", loudness |-> s, stereo |-> DefaultStereoMeterState ] :
        s \in LoudnessArguments }
    \cup
    { [ kind |-> "stereo", loudness |-> DefaultLoudnessMeterState, stereo |-> s ] :
        s \in StereoArguments }

\* the processor after construction, and the argument of the calls to come
InitPrefs ==
    /\ priv = PrivInit
    /\ shared = SharedInit
    /\ lock = "none"
    /\ snapshot = SnapshotInit
    /\ dump = DumpInit
    /\ pcAudio = "idle"
    /\ pcUI = "idle"
    /\ pending = NoPending
    /\ uiResult = "none"
    /\ \E a \in Arguments : ghost = [GhostInit EXCEPT !.arg = a]

\* set with the argument, and set with what get returns
NextPrefs ==
    \/ ghost.arg.kind = "loudness" /\ setLoudnessMeterState(ghost.arg.loudness)
    \/ ghost.arg.kind = "stereo" /\ setStereoMeterState(ghost.arg.stereo)
    \/ setLoudnessMeterState(getLoudnessMeterState)
    \/ setStereoMeterState(getStereoMeterState)

SpecPrefs == InitPrefs /\ [][NextPrefs]_vars

----------------------------------------------------------------------------
(* The operations step by step, the audio thread and the message thread    *)
(* interleaved.  lock is "none" or the thread that holds shared.lock.      *)

\* a try-lock that reports success whoever holds the lock
TryLockIgnoresHolder(holder) == TRUE

\* a lock that is entered without waiting for its holder
EnterWithoutWaiting(holder) == TRUE

\* juce::SpinLock::ScopedTryLockType: whether tryEnter () got the lock
TryLockSucceeds(holder) == holder = "none"

\* juce::SpinLock::ScopedLockType: enter () returns only once the lock is free
EnterReturns(holder) == holder = "none"

\* processBlock at line 1094, res computed
ReachLock(b, res) ==
    /\ priv' = res.priv
    /\ IF res.spins
       THEN /\ pcAudio' = "spin"
            /\ UNCHANGED <<pending, ghost>>
       ELSE /\ pcAudio' = "pb_enter"
            /\ pending' = res.pend
            /\ ghost' = LogBlockSince([LogPrivate(ghost, b, res) EXCEPT !.parity = NextStamp],
                                      res.pend)

\* processBlock up to line 1092, on private state only
PB_Compute(b) ==
    /\ pcAudio = "idle"
    /\ ReachLock(b, Compute(priv, b, ghost.frames))
    /\ UNCHANGED <<shared, lock, snapshot, dump, pcUI, uiResult>>

\* line 1095: const juce::SpinLock::ScopedLockType sl (shared.lock)
PB_Enter ==
    /\ pcAudio = "pb_enter"
    /\ EnterReturns(lock)
    /\ lock' = "audio"
    /\ pcAudio' = "pb_rings"
    /\ UNCHANGED <<priv, shared, snapshot, dump, pcUI, pending, uiResult, ghost>>

PB_Rings ==
    /\ pcAudio = "pb_rings"
    /\ shared' = PublishRings(shared, pending, priv, ghost.parity)
    /\ priv' = RunWaveformFilters(priv, shared, pending)
    /\ ghost' = LogShared(ghost, shared, pending, priv)
    /\ pcAudio' = "pb_scalars"
    /\ UNCHANGED <<lock, snapshot, dump, pcUI, pending, uiResult>>

PB_Scalars ==
    /\ pcAudio = "pb_scalars"
    /\ shared' = PublishScalars(shared, pending, priv, ghost.parity)
    /\ pcAudio' = "pb_history"
    /\ UNCHANGED <<priv, lock, snapshot, dump, pcUI, pending, uiResult, ghost>>

\* the last writes and the end of the locked scope
PB_History ==
    /\ pcAudio = "pb_history"
    /\ shared' = PublishHistory(shared, pending, ghost.parity)
    /\ lock' = "none"
    /\ pcAudio' = "idle"
    /\ pending' = NoPending
    /\ UNCHANGED <<priv, snapshot, dump, pcUI, uiResult, ghost>>

PR_Private(sr) ==
    /\ pcAudio = "idle"
    /\ priv' = PreparePrivate(priv, sr)
    /\ pending' = [NoPending EXCEPT !.sr = sr]
    /\ pcAudio' = "pr_enter"
    /\ UNCHANGED <<shared, lock, snapshot, dump, pcUI, uiResult, ghost>>

\* line 666: const juce::SpinLock::ScopedLockType sl (shared.lock)
PR_Enter ==
    /\ pcAudio = "pr_enter"
    /\ EnterReturns(lock)
    /\ lock' = "audio"
    /\ pcAudio' = "pr_shared"
    /\ UNCHANGED <<priv, shared, snapshot, dump, pcUI, pending, uiResult, ghost>>

PR_Shared ==
    /\ pcAudio = "pr_shared"
    /\ shared' = PrepareShared(shared, priv, pending.sr)
    /\ priv' = PrepareCoefficients(PrepareTail(priv), pending.sr)
    /\ lock' = "none"
    /\ pcAudio' = "idle"
    /\ pending' = NoPending
    /\ ghost' = LogPrepare(ghost)
    /\ UNCHANGED <<snapshot, dump, pcUI, uiResult>>

\* fillSnapshot, lines 1565-1567: the try-lock and the early return
FS_TryLock(includeAudioHistory) ==
    /\ pcUI = "idle"
    /\ IF TryLockSucceeds(lock)
       THEN /\ lock' = "ui"
            /\ pcUI' = IF includeAudioHistory THEN "fs_copy_all" ELSE "fs_copy"
            /\ uiResult' = "fs_locked"
            /\ UNCHANGED ghost
       ELSE /\ pcUI' = "idle"
            /\ uiResult' = "fs_kept"
            /\ ghost' = LogMissed(ghost)
            /\ UNCHANGED lock
    /\ UNCHANGED <<priv, shared, snapshot, dump, pcAudio, pending>>

\* fillSnapshot, lines 1569-1701, and the end of the locked scope
FS_Copy ==
    /\ pcUI \in {"fs_copy", "fs_copy_all"}
    /\ snapshot' = CopySnapshot(snapshot, shared, pcUI = "fs_copy_all")
    /\ ghost' = LogSnapshot(ghost)
    /\ lock' = "none"
    /\ pcUI' = "idle"
    /\ uiResult' = "fs_filled"
    /\ UNCHANGED <<priv, shared, dump, pcAudio, pending>>

\* requestAudioDump, lines 1706-1708
RD_TryLock ==
    /\ pcUI = "idle"
    /\ IF TryLockSucceeds(lock)
       THEN /\ lock' = "ui"
            /\ pcUI' = "rd_copy"
            /\ uiResult' = "rd_locked"
       ELSE /\ pcUI' = "idle"
            /\ uiResult' = "rd_kept"
            /\ UNCHANGED lock
    /\ UNCHANGED <<priv, shared, snapshot, dump, pcAudio, pending, ghost>>

\* requestAudioDump, lines 1710-1711
RD_Copy ==
    /\ pcUI = "rd_copy"
    /\ dump' = CopyDump(shared)
    /\ lock' = "none"
    /\ pcUI' = "idle"
    /\ uiResult' = "rd_filled"
    /\ UNCHANGED <<priv, shared, snapshot, pcAudio, pending, ghost>>

\* resetLoudnessStatistics, lines 1758-1761, before the lock
InFlight == pcAudio \in {"pb_enter", "pb_rings", "pb_scalars", "pb_history"}

RS_Private ==
    /\ pcUI = "idle"
    /\ priv' = ResetPrivate(priv)
    /\ pcUI' = "rs_enter"
    /\ ghost' = LogResetStart(ghost, InFlight, pending)
    /\ UNCHANGED <<shared, lock, snapshot, dump, pcAudio, pending, uiResult>>

\* lines 1758-1761 while processBlock is at lines 1025-1026.  Both threads
\* access the plain floats maxMomentaryLufs and maxShortTermLufs without
\* synchronisation; here the audio thread has read them before the reset
\* wrote them and writes its jmax after, so the reset's two writes are lost.
\* The step is placed at the end of the block's private computation.
RS_PrivateRaced ==
    /\ pcUI = "idle"
    /\ pcAudio = "pb_enter"
    /\ priv' = [ResetPrivate(priv) EXCEPT !.maxMomentaryLufs = priv.maxMomentaryLufs,
                                          !.maxShortTermLufs = priv.maxShortTermLufs]
    /\ pcUI' = "rs_enter"
    /\ ghost' = LogResetStart(ghost, InFlight, pending)
    /\ UNCHANGED <<shared, lock, snapshot, dump, pcAudio, pending, uiResult>>

\* line 1763: const juce::SpinLock::ScopedLockType sl (shared.lock)
RS_Enter ==
    /\ pcUI = "rs_enter"
    /\ EnterReturns(lock)
    /\ lock' = "ui"
    /\ pcUI' = "rs_clear"
    /\ UNCHANGED <<priv, shared, snapshot, dump, pcAudio, pending, uiResult, ghost>>

RS_Clear ==
    /\ pcUI = "rs_clear"
    /\ shared' = ResetShared(shared)
    /\ ghost' = LogResetReturn([ghost EXCEPT !.histPushed = <<>>])
    /\ lock' = "none"
    /\ pcUI' = "idle"
    /\ uiResult' = "rs_done"
    /\ UNCHANGED <<priv, snapshot, dump, pcAudio, pending>>

AudioThread ==
    \/ PR_Private(1)
    \/ PR_Enter
    \/ PR_Shared
    \/ \E b \in Blocks({2}, {3998696}, MaxConcBlock, MaxConcTotal) : PB_Compute(b)
    \/ PB_Enter
    \/ PB_Rings
    \/ PB_Scalars
    \/ PB_History

MessageThread ==
    \/ \E includeAudioHistory \in BOOLEAN : FS_TryLock(includeAudioHistory)
    \/ FS_Copy
    \/ RD_TryLock
    \/ RD_Copy
    \/ RS_Private
    \/ RS_PrivateRaced
    \/ RS_Enter
    \/ RS_Clear

NextConc == AudioThread \/ MessageThread

SpecConc == Init /\ [][NextConc]_vars

----------------------------------------------------------------------------
(* Properties: the lock.                                                   *)

\* C1: fillSnapshot and requestAudioDump never wait for the shared lock: a
\* call made while another thread holds the lock returns at once, and the
\* caller's snapshot, destination buffer and wrapped flag stay as they were.
C1_ContendedCallReturnsUnchanged ==
    [][ (lock # "none" /\ ((\E includeAudioHistory \in BOOLEAN :
                               FS_TryLock(includeAudioHistory)) \/ RD_TryLock))
          => (pcUI' = "idle" /\ snapshot' = snapshot /\ dump' = dump /\ lock' = lock) ]_vars

\* a fillSnapshot has returned empty-handed while the audio thread is in the
\* middle of publishing a block the snapshot does not hold
C1_Witness ==
    /\ uiResult = "fs_kept"
    /\ pcUI = "idle"
    /\ lock = "audio"
    /\ pcAudio = "pb_scalars"
    /\ snapshot.stampRings # shared.stampRings

\* C2: the audio callback is never blocked by the display thread: processBlock
\* never stands at its lock acquisition while fillSnapshot or requestAudioDump
\* holds the shared lock.
C2_AudioNeverWaitsForDisplay ==
    ~(pcAudio = "pb_enter" /\ lock = "ui" /\ pcUI \in {"fs_copy", "fs_copy_all", "rd_copy"})

\* C3: the UI thread never waits: none of fillSnapshot, requestAudioDump and
\* resetLoudnessStatistics stands at a lock acquisition while the lock is held
\* by another thread (each takes the lock by a zero-wait attempt only).
C3_UiNeverWaits ==
    ~(pcUI = "rs_enter" /\ lock = "audio")

\* C4: every successful fillSnapshot copies the lock-guarded fields from one
\* single state of the shared aggregate: the rings, the scalars and the
\* loudness history of a snapshot were all last published by the same block.
C4_SnapshotFromOneBlock ==
    /\ snapshot.stampRings = snapshot.stampScalars
    /\ snapshot.stampScalars = snapshot.stampHistory

\* a snapshot taken after a second block was published over a first one
C4_Witness ==
    /\ uiResult = "fs_filled"
    /\ snapshot.stampRings = 2
    /\ snapshot.oscilloscope # <<>>
    /\ snapshot.momentaryLufs = shared.momentaryLufs

----------------------------------------------------------------------------
(* Properties: the rings.                                                  *)

\* the last min (k, capacity) of the k entries pushed, oldest first
LastPushed(pushed, capacity) == LastN(pushed, jmin(Len(pushed), capacity))

\* the waveform buckets of a snapshot, one tuple per bucket
SnapshotBuckets(snap) ==
    [i \in 1 .. Len(snap.waveformLeftMins) |->
        <<snap.waveformLeftMins[i], snap.waveformLeftMaxs[i],
          snap.waveformRightMins[i], snap.waveformRightMaxs[i]>>]

\* C5: for each ring that fillSnapshot linearises (oscilloscope samples,
\* waveform buckets, loudness history): after k entries pushed since the last
\* prepare (loudness history: also since the last reset), whatever the split
\* into blocks, the snapshot holds exactly the last min (k, capacity) entries
\* pushed, oldest first; capacity + 1 pushes evict the first entry.
C5_SnapshotRingsHoldLastPushed ==
    uiResult = "fs_filled" =>
      /\ snapshot.oscilloscope = LastPushed(ghost.snapOsc, kOscilloscopeBufferSize)
      /\ Len(snapshot.waveformLeftMaxs) = Len(snapshot.waveformLeftMins)
      /\ Len(snapshot.waveformRightMins) = Len(snapshot.waveformLeftMins)
      /\ Len(snapshot.waveformRightMaxs) = Len(snapshot.waveformLeftMins)
      /\ SnapshotBuckets(snapshot) = LastPushed(ghost.snapWave, kWaveformResolution)
      /\ snapshot.loudnessHistory = LastPushed(ghost.snapHist, LoudnessHistorySpan)

\* a snapshot of rings that have each evicted an entry, the oscilloscope
\* exactly one
C5_Witness ==
    /\ uiResult = "fs_filled"
    /\ Len(ghost.snapOsc) = kOscilloscopeBufferSize + 1
    /\ Len(snapshot.oscilloscope) = kOscilloscopeBufferSize
    /\ snapshot.oscilloscope # LastN(ghost.snapOsc, kOscilloscopeBufferSize + 1)
    /\ Len(ghost.snapWave) > kWaveformResolution
    /\ Len(ghost.snapHist) > LoudnessHistorySpan

\* C6: for the spectrogram ring of W columns: after c columns written since
\* prepare the write position is c mod W and the wrapped flag is set exactly
\* when c >= W; linearising a snapshot as the spectrogram view does yields the
\* last min (c, W) columns written, oldest first, and no column never written.
C6_SpectrogramRing ==
    LET c == Len(ghost.colsWritten)
        W == Size(shared.spectrogramHistory)
    IN  /\ shared.spectrogramWritePosition = c % W
        /\ shared.spectrogramWrapped <=> c >= W
        /\ uiResult = "fs_filled" =>
             /\ OrderedColumns(snapshot)
                  = LastPushed(ghost.snapCols, Size(snapshot.spectrogram))
             /\ \A i \in 1 .. Len(OrderedColumns(snapshot)) : OrderedColumns(snapshot)[i] # 0

\* a snapshot of a two-column spectrogram that has wrapped, after three columns
C6_Witness ==
    /\ uiResult = "fs_filled"
    /\ snapshot.spectrogramWrapped
    /\ Size(snapshot.spectrogram) = 2
    /\ snapshot.spectrogramWritePosition = 1
    /\ Len(ghost.snapCols) = 3

RingInRange(index, capacity) == index \in 0 .. capacity - 1

FilledInRange(filled, capacity) == filled \in 0 .. capacity

\* the counters of the three sub-block periods after a processBlock; a
\* processBlock returns only once the processor has been prepared
CountersBelowPeriods ==
    priv.loudnessHistoryIntervalSamples > 0 =>
      /\ shared.waveformSampleCounter < shared.waveformSamplesPerBucket
      /\ priv.integratedSampleCounter < priv.integratedBlockSamples
      /\ priv.loudnessHistorySampleCounter < priv.loudnessHistoryIntervalSamples

\* every filled count within its capacity, and equal to the number of pushes
\* until that reaches the capacity
FilledSaturates ==
    /\ FilledInRange(shared.waveformFilled, Size(shared.waveformMin[0]))
    /\ FilledInRange(shared.oscilloscopeFilled, Size(shared.oscilloscopeBuffer))
    /\ FilledInRange(shared.loudnessHistoryFilled, Size(shared.loudnessHistory))
    /\ FilledInRange(priv.integratedFilled, Size(priv.integratedBlockEnergies))
    /\ FilledInRange(priv.shortTermHistoryFilled, Size(priv.shortTermHistoryBuffer))
    /\ shared.waveformFilled = jmin(Len(ghost.wavePushed), Size(shared.waveformMin[0]))
    /\ shared.oscilloscopeFilled = jmin(Len(ghost.oscPushed), Size(shared.oscilloscopeBuffer))
    /\ shared.loudnessHistoryFilled = jmin(Len(ghost.histPushed), Size(shared.loudnessHistory))
    /\ priv.shortTermHistoryFilled
         = jmin(Len(ghost.stPushed), Size(priv.shortTermHistoryBuffer))
    /\ priv.integratedBlockSamples > 0 =>
         priv.integratedFilled = jmin(Len(ghost.sqAll) \div priv.integratedBlockSamples,
                                      Size(priv.integratedBlockEnergies))

\* C7 as stated: in every state reachable by construction, prepare,
\* processBlock, resetLoudnessStatistics and fillSnapshot every ring's write
\* index lies in [0, capacity), every filled count lies in [0, capacity] and
\* saturates there, and after each processBlock every sub-block counter is
\* below its period.
C7_IndicesWithinCapacity ==
    /\ RingInRange(shared.writePosition, Size(shared.audioHistory[0]))
    /\ RingInRange(shared.waveformWriteIndex, Size(shared.waveformMin[0]))
    /\ RingInRange(shared.oscilloscopeWriteIndex, Size(shared.oscilloscopeBuffer))
    /\ RingInRange(shared.spectrogramWritePosition, Size(shared.spectrogramHistory))
    /\ RingInRange(shared.loudnessHistoryWrite, Size(shared.loudnessHistory))
    /\ RingInRange(priv.integratedWriteIndex, Size(priv.integratedBlockEnergies))
    /\ RingInRange(priv.shortTermHistoryWriteIndex, Size(priv.shortTermHistoryBuffer))
    /\ FilledSaturates
    /\ CountersBelowPeriods

\* a ring that holds slots has its write index among them; one without slots
\* (the three loudness rings until the first prepare) has index 0
IndexWithinAllocated(index, capacity) ==
    IF capacity > 0 THEN RingInRange(index, capacity) ELSE index = 0

\* C7 amended: the write index of every ring that has been allocated lies in
\* [0, capacity), and is 0 for the loudness rings that a processor never
\* prepared holds with capacity 0; filled counts and counters as stated.
C7_IndicesWithinAllocatedCapacity ==
    /\ IndexWithinAllocated(shared.writePosition, Size(shared.audioHistory[0]))
    /\ IndexWithinAllocated(shared.waveformWriteIndex, Size(shared.waveformMin[0]))
    /\ IndexWithinAllocated(shared.oscilloscopeWriteIndex, Size(shared.oscilloscopeBuffer))
    /\ IndexWithinAllocated(shared.spectrogramWritePosition, Size(shared.spectrogramHistory))
    /\ IndexWithinAllocated(shared.loudnessHistoryWrite, Size(shared.loudnessHistory))
    /\ IndexWithinAllocated(priv.integratedWriteIndex, Size(priv.integratedBlockEnergies))
    /\ IndexWithinAllocated(priv.shortTermHistoryWriteIndex,
                            Size(priv.shortTermHistoryBuffer))
    /\ FilledSaturates
    /\ CountersBelowPeriods

\* every counted ring full after more pushes than it has slots, the write
\* index of the oscilloscope back inside after wrapping
C7_Witness ==
    /\ pcAudio = "idle"
    /\ Len(ghost.oscPushed) > kOscilloscopeBufferSize
    /\ shared.oscilloscopeFilled = kOscilloscopeBufferSize
    /\ Len(ghost.wavePushed) > kWaveformResolution
    /\ shared.waveformFilled = kWaveformResolution
    /\ shared.loudnessHistoryFilled = LoudnessHistorySpan
    /\ Len(ghost.sqAll) \div priv.integratedBlockSamples > IntegratedBlocks
    /\ priv.integratedFilled = IntegratedBlocks
    /\ shared.oscilloscopeWriteIndex = 1

----------------------------------------------------------------------------
(* Properties: the loudness engine.                                        *)

\* the energies of the integration blocks completed since the last prepare:
\* the mean square of each run of integratedBlockSamples samples, floored
BlockEnergiesPushed ==
    IF priv.integratedBlockSamples <= 0 THEN <<>>
    ELSE [j \in 1 .. Len(ghost.sqAll) \div priv.integratedBlockSamples |->
            jmax(1, SumSeq(SubSeq(ghost.sqAll, (j - 1) * priv.integratedBlockSamples + 1,
                                  j * priv.integratedBlockSamples))
                      \div priv.integratedBlockSamples)]

\* the blocks the ring holds: the most recent ones, at most its capacity
HeldBlocks == LastPushed(BlockEnergiesPushed, IntegratedBlocks)

MeanEnergy(energies) == SumSeq(energies) \div Len(energies)

\* two-stage gating over blocks, given which blocks survive the absolute gate
GatedLoudness(blocks, Survives(_)) ==
    LET surviving == SelectSeq(blocks, Survives)
    IN  IF surviving = <<>> THEN -100
        ELSE
          LET gate == energyToLoudness(MeanEnergy(surviving)) - 10
              kept == SelectSeq(surviving, LAMBDA e : energyToLoudness(e) >= gate)
          IN  IF kept = <<>> THEN energyToLoudness(MeanEnergy(surviving))
              ELSE energyToLoudness(MeanEnergy(kept))

\* loudness exactly k: the largest energy whose loudness does not exceed k
AtLoudness(energy, k) ==
    energyToLoudness(energy) = k /\ energyToLoudness(energy + 1) > k

\* a block survives unless its loudness is below -70
NotBelowGate(energy) == energyToLoudness(energy) > -70 \/ AtLoudness(energy, -70)

\* a block survives when its loudness is above -70
AboveGate(energy) == energyToLoudness(energy) > -70

\* C8 as stated: after every completed block the integrated loudness is the
\* gated loudness of the blocks the ring holds, where the absolute gate
\* discards the blocks whose loudness is below -70: the sentinel -100 exactly
\* when no held block survives it, else the loudness of the mean energy of the
\* surviving blocks at or above (loudness of their mean energy - 10).
C8_IntegratedOverBlocksNotBelowGate ==
    BlockEnergiesPushed # <<>> =>
      /\ priv.integratedLoudness = GatedLoudness(HeldBlocks, NotBelowGate)
      /\ priv.integratedLoudness = -100 <=> SelectSeq(HeldBlocks, NotBelowGate) = <<>>

\* C8 amended: the same with an absolute gate that keeps only the blocks whose
\* loudness is above -70; a block at -70 exactly is discarded with the ones
\* below.
C8_IntegratedOverBlocksAboveGate ==
    BlockEnergiesPushed # <<>> =>
      /\ priv.integratedLoudness = GatedLoudness(HeldBlocks, AboveGate)
      /\ priv.integratedLoudness = -100 <=> SelectSeq(HeldBlocks, AboveGate) = <<>>

\* the ring has evicted a block and holds one at -70 exactly, one that passes
\* the absolute gate and fails the relative one, and one that passes both
C8_Witness ==
    /\ Len(BlockEnergiesPushed) > IntegratedBlocks
    /\ \E i \in 1 .. Len(HeldBlocks) : AtLoudness(HeldBlocks[i], -70)
    /\ \E i \in 1 .. Len(HeldBlocks) :
          /\ AboveGate(HeldBlocks[i])
          /\ energyToLoudness(HeldBlocks[i])
               < energyToLoudness(MeanEnergy(SelectSeq(HeldBlocks, AboveGate))) - 10
    /\ priv.integratedLoudness > -100

\* C9: every energy the loudness state holds (the momentary and the
\* short-term accumulator, every entry of the block-energy ring) is at least
\* 1e-12, also after long silence; stated here for a prepared processor.
C9_EnergiesAtLeastFloor ==
    priv.loudnessHistoryIntervalSamples > 0 =>
      /\ priv.momentaryEnergy >= 1
      /\ priv.shortTermEnergy >= 1
      /\ \A i \in DOMAIN priv.integratedBlockEnergies : priv.integratedBlockEnergies[i] >= 1

\* the short-term samples the history ring holds
HistorySamples == LastPushed(ghost.stPushed, LoudnessHistorySpan)

\* those at or above (integrated - 20)
RangeSamples == SelectSeq(HistorySamples, LAMBDA v : v >= priv.integratedLoudness - 20)

\* the order statistic of rank k, counted from 0
OrderStatistic(samples, k) ==
    CHOOSE v \in {samples[i] : i \in 1 .. Len(samples)} :
        /\ Cardinality({i \in 1 .. Len(samples) : samples[i] < v}) <= k
        /\ k < Cardinality({i \in 1 .. Len(samples) : samples[i] <= v})

\* the percentile at index (n - 1) * p, interpolated between the order
\* statistics at the floor and the ceiling of the index; p in percent, the
\* result in 0.01 LU
InterpolatedPercentile(samples, p) ==
    LET index100 == (Len(samples) - 1) * p
        floorIdx == index100 \div 100
        ceilIdx  == IF index100 % 100 = 0 THEN floorIdx ELSE floorIdx + 1
        below    == OrderStatistic(samples, floorIdx)
        above    == OrderStatistic(samples, ceilIdx)
    IN  100 * below + (above - below) * (index100 % 100)

\* C10: the loudness range is 0 when fewer than 2 short-term history samples
\* are at or above (integrated - 20), else P95 - P10 of those samples with
\* linear interpolation between order statistics; it is never negative.
C10_LoudnessRangeFromPercentiles ==
    /\ priv.loudnessRangeValue =
         IF Len(RangeSamples) < 2 THEN 0
         ELSE InterpolatedPercentile(RangeSamples, 95) - InterpolatedPercentile(RangeSamples, 10)
    /\ priv.loudnessRangeValue >= 0
    /\ shared.loudnessRange >= 0

\* a positive range over a history ring that has evicted a sample and holds
\* one below the threshold
C10_Witness ==
    /\ Len(ghost.stPushed) > LoudnessHistorySpan
    /\ Len(RangeSamples) >= 2
    /\ Len(RangeSamples) < Len(HistorySamples)
    /\ priv.loudnessRangeValue > 0
    /\ shared.loudnessRange = priv.loudnessRangeValue

----------------------------------------------------------------------------
(* Properties: max-hold and reset.                                         *)

\* C11: max-hold never ages out: the max-momentary and max-short-term values
\* a processBlock publishes are never below the ones published before it and
\* never below the momentary / short-term value the same block publishes;
\* only a reset (resetLoudnessStatistics, or prepareToPlay starting over)
\* lowers them.
C11_MaxHoldNeverAgesOut ==
    [][ /\ PB_Scalars =>
             /\ shared'.maxMomentary >= shared.maxMomentary
             /\ shared'.maxShortTerm >= shared.maxShortTerm
             /\ shared'.maxMomentary >= shared'.momentaryLufs
             /\ shared'.maxShortTerm >= shared'.shortTermLufs
        /\ (shared'.maxMomentary < shared.maxMomentary
              \/ shared'.maxShortTerm < shared.maxShortTerm)
             => (RS_Clear \/ PR_Shared \/ PB_Scalars) ]_vars

\* C12: resetLoudnessStatistics leaves the momentary and short-term energy
\* accumulators, the integrated block-energy ring with its counters and the
\* integrated loudness, and the waveform, oscilloscope, spectrogram and
\* audio-history rings unchanged; after it the max-hold values are -100, both
\* clip flags are false and the loudness history has filled count 0.
C12_ResetFrame ==
    [][ ResetLoudnessStatistics =>
          /\ priv'.momentaryEnergy = priv.momentaryEnergy
          /\ priv'.shortTermEnergy = priv.shortTermEnergy
          /\ priv'.integratedBlockEnergies = priv.integratedBlockEnergies
          /\ priv'.integratedWriteIndex = priv.integratedWriteIndex
          /\ priv'.integratedFilled = priv.integratedFilled
          /\ priv'.integratedEnergyAccumulator = priv.integratedEnergyAccumulator
          /\ priv'.integratedSampleCounter = priv.integratedSampleCounter
          /\ priv'.integratedLoudness = priv.integratedLoudness
          /\ shared'.integratedLufs = shared.integratedLufs
          /\ shared'.waveformMin = shared.waveformMin
          /\ shared'.waveformMax = shared.waveformMax
          /\ shared'.waveformWriteIndex = shared.waveformWriteIndex
          /\ shared'.waveformFilled = shared.waveformFilled
          /\ shared'.waveformSampleCounter = shared.waveformSampleCounter
          /\ shared'.oscilloscopeBuffer = shared.oscilloscopeBuffer
          /\ shared'.oscilloscopeWriteIndex = shared.oscilloscopeWriteIndex
          /\ shared'.oscilloscopeFilled = shared.oscilloscopeFilled
          /\ shared'.spectrogramHistory = shared.spectrogramHistory
          /\ shared'.spectrogramWritePosition = shared.spectrogramWritePosition
          /\ shared'.spectrogramWrapped = shared.spectrogramWrapped
          /\ shared'.audioHistory = shared.audioHistory
          /\ shared'.writePosition = shared.writePosition
          /\ shared'.hasWrapped = shared.hasWrapped
          /\ priv'.maxMomentaryLufs = -100 /\ priv'.maxShortTermLufs = -100
          /\ shared'.maxMomentary = -100 /\ shared'.maxShortTerm = -100
          /\ ~shared'.clippedL /\ ~shared'.clippedR
          /\ shared'.loudnessHistoryFilled = 0 ]_vars

\* a reset has cleared max-hold, clip flags and loudness history of a
\* processor whose accumulators and rings hold what the blocks before it left
C12_Witness ==
    /\ shared.maxMomentary = -100 /\ shared.momentaryLufs > -100
    /\ priv.maxMomentaryLufs = -100
    /\ shared.loudnessHistoryFilled = 0 /\ priv.shortTermHistoryFilled > 0
    /\ priv.momentaryEnergy > 1000
    /\ priv.integratedFilled > 0
    /\ shared.oscilloscopeFilled > 0 /\ shared.waveformFilled > 0
    /\ shared.spectrogramWrapped
    /\ shared.hasWrapped

\* C13: after resetLoudnessStatistics the short-term loudness history is empty
\* for both of its uses: the history shown to the UI and the history that
\* feeds the loudness range always hold the same number of entries, the
\* number of samples pushed since the last prepare or reset (up to capacity).
C13_ResetEmptiesBothHistories ==
    /\ shared.loudnessHistoryFilled
         = jmin(Len(ghost.histPushed), Size(shared.loudnessHistory))
    /\ priv.shortTermHistoryFilled = shared.loudnessHistoryFilled

----------------------------------------------------------------------------
(* Properties: prepare.                                                    *)

\* every ring at write index 0 with nothing in it and not wrapped, and the
\* loudness state at its initial values
PreparedAfresh ==
    /\ shared.writePosition = 0 /\ ~shared.hasWrapped
    /\ shared.waveformWriteIndex = 0 /\ shared.waveformFilled = 0
    /\ shared.oscilloscopeWriteIndex = 0 /\ shared.oscilloscopeFilled = 0
    /\ shared.spectrogramWritePosition = 0 /\ ~shared.spectrogramWrapped
    /\ shared.loudnessHistoryWrite = 0 /\ shared.loudnessHistoryFilled = 0
    /\ priv.integratedWriteIndex = 0 /\ priv.integratedFilled = 0
    /\ priv.shortTermHistoryWriteIndex = 0 /\ priv.shortTermHistoryFilled = 0
    /\ priv.momentaryEnergy = PrivInit.momentaryEnergy
    /\ priv.shortTermEnergy = PrivInit.shortTermEnergy
    /\ priv.integratedLoudness = -100 /\ shared.integratedLufs = -100
    /\ priv.loudnessRangeValue = 0 /\ shared.loudnessRange = 0
    /\ priv.maxMomentaryLufs = -100 /\ priv.maxShortTermLufs = -100
    /\ shared.maxMomentary = -100 /\ shared.maxShortTerm = -100

\* C14: prepare is destructive: after any prepare, whatever was processed
\* before, every ring has write index 0, filled count 0 and wrapped flag
\* false and the loudness state is at its initial values, and a fillSnapshot
\* that follows yields empty waveform, oscilloscope and loudness-history
\* sequences.
C14_PrepareIsDestructive ==
    [][ /\ (\E sr \in SampleRates : Prepare(sr)) => PreparedAfresh'
        /\ (PreparedAfresh /\ FillSnapshot(FALSE)) =>
              /\ snapshot'.waveformLeftMins = <<>> /\ snapshot'.waveformLeftMaxs = <<>>
              /\ snapshot'.waveformRightMins = <<>> /\ snapshot'.waveformRightMaxs = <<>>
              /\ snapshot'.oscilloscope = <<>>
              /\ snapshot'.loudnessHistory = <<>> ]_vars

\* a snapshot taken after a prepare that discarded what was processed before
\* it (the snapshot still shows the spectrum of an earlier frame)
C14_Witness ==
    /\ PreparedAfresh
    /\ priv.loudnessHistoryIntervalSamples > 0
    /\ ghost.total = 0
    /\ uiResult = "fs_filled"
    /\ snapshot.oscilloscope = <<>> /\ snapshot.loudnessHistory = <<>>
    /\ snapshot.spectrum # 0

\* C15: prepare with a sample rate <= 0 fails fast: it derives no coefficient
\* and no ring capacity from the invalid value and does not enter the
\* prepared state.
C15_InvalidPrepareFailsFast ==
    [][ (\E sr \in InvalidSampleRates : Prepare(sr)) =>
          /\ priv'.momentaryCoeff = priv.momentaryCoeff
          /\ priv'.shortTermCoeff = priv.shortTermCoeff
          /\ priv'.integratedBlockSamples = priv.integratedBlockSamples
          /\ priv'.loudnessHistoryIntervalSamples = priv.loudnessHistoryIntervalSamples
          /\ Size(priv'.integratedBlockEnergies) = Size(priv.integratedBlockEnergies)
          /\ Size(priv'.shortTermHistoryBuffer) = Size(priv.shortTermHistoryBuffer)
          /\ Size(shared'.audioHistory[0]) = Size(shared.audioHistory[0])
          /\ Size(shared'.spectrogramHistory) = Size(shared.spectrogramHistory)
          /\ Size(shared'.loudnessHistory) = Size(shared.loudnessHistory) ]_vars

----------------------------------------------------------------------------
(* Properties: the peak envelope.                                          *)

\* the last block was delivered after the last prepare and was a steady
\* signal of magnitude amp > 0
AfterSteadyBlock(amp) ==
    /\ ghost.total > 0 /\ ghost.lastL # <<>>
    /\ ghost.lastL[1] = amp /\ amp > 0

\* pk after n samples of silence falling at the fall coefficient
Decayed(pk, n) ==
    Fraction(IntPow(PeakFallCoeff[1], n) * pk[1], IntPow(PeakFallCoeff[2], n) * pk[2])

\* C17: the peak envelope carries over from block to block.  While the
\* input stays at magnitude A the published peak grows strictly from block to
\* block and never exceeds A; in the first block of silence after it the peak
\* decays at the fall coefficient's rate and stays above 0.
C17_PeakCarriesAcrossBlocks ==
    [][ \A amp \in Amplitudes : \A b \in LevelBlocks :
          (AfterSteadyBlock(amp) /\ BlockLen(b) > 0 /\ ProcessBlock(b)) =>
             /\ b.L[1] = amp =>
                  /\ FractionLess(priv.peakL, priv'.peakL)
                  /\ ~FractionLess(<<amp, 1>>, priv'.peakL)
             /\ b.L[1] = 0 =>
                  /\ priv'.peakL = Decayed(priv.peakL, BlockLen(b))
                  /\ FractionLess(<<0, 1>>, priv'.peakL) ]_vars

----------------------------------------------------------------------------
(* Properties: the preference structs.                                     *)

\* the values a field may hold after being clamped to its range: the value
\* itself when it is in the range, else the values of the range nearest to it
ClampedTo(value, range) ==
    IF value \in range THEN {value}
    ELSE {r \in range : \A q \in range : Abs(value - r) <= Abs(value - q)}

\* got is the argument s with only its out-of-range fields clamped
LoudnessClamped(s, got) ==
    /\ got.targetLufs \in ClampedTo(s.targetLufs, -36 .. -6)
    /\ got.showRms = s.showRms
    /\ got.historySeconds \in ClampedTo(s.historySeconds, {20, 60, 120})

StereoClamped(s, got) ==
    /\ got.viewMode \in ClampedTo(s.viewMode, {1, 2})
    /\ got.displayMode \in ClampedTo(s.displayMode, 1 .. 3)
    /\ got.scopeScale \in ClampedTo(s.scopeScale, 5 .. 20)
    /\ got.historySeconds \in ClampedTo(s.historySeconds, {3, 6, 12, 24})
    /\ got.freeze = s.freeze
    /\ got.showDots = s.showDots
    /\ got.persistence = s.persistence
    /\ got.trailSeconds \in ClampedTo(s.trailSeconds, 2 .. 30)

\* set with what get returns leaves the stored state as it is
SetGetIsIdentity ==
    /\ setLoudnessMeterState(getLoudnessMeterState) => priv' = priv
    /\ setStereoMeterState(getStereoMeterState) => priv' = priv

\* C16: get after set (s) returns s with only its out-of-range fields clamped
\* to their range (s itself when every field is in range), for both structs,
\* and set (get ()) never changes the stored state.
C16_SetGetClamps ==
    [][ /\ (ghost.arg.kind = "loudness" /\ setLoudnessMeterState(ghost.arg.loudness))
             => LoudnessClamped(ghost.arg.loudness, priv'.loudnessState)
        /\ (ghost.arg.kind = "stereo" /\ setStereoMeterState(ghost.arg.stereo))
             => StereoClamped(ghost.arg.stereo, priv'.stereoState)
        /\ SetGetIsIdentity ]_vars

\* the allowed window nearest to value, the shorter one of two equally near
NearestWindow(value, windows) ==
    CHOOSE w \in windows :
        \A q \in windows :
            \/ Abs(value - w) < Abs(value - q)
            \/ Abs(value - w) = Abs(value - q) /\ w <= q

LoudnessSanitised(s, got) ==
    /\ got.targetLufs \in ClampedTo(s.targetLufs, -36 .. -6)
    /\ got.showRms = s.showRms
    /\ got.historySeconds = NearestWindow(s.historySeconds, {20, 60, 120})

StereoSanitised(s, got) ==
    /\ got.viewMode = (IF s.viewMode = 2 THEN 2 ELSE 1)
    /\ got.displayMode \in ClampedTo(s.displayMode, 1 .. 3)
    /\ got.scopeScale \in ClampedTo(s.scopeScale, 5 .. 20)
    /\ got.historySeconds = NearestWindow(s.historySeconds, {3, 6, 12, 24})
    /\ got.freeze = s.freeze
    /\ got.showDots = (got.displayMode = 2)
    /\ got.persistence = (got.displayMode = 3)
    /\ got.trailSeconds \in ClampedTo(s.trailSeconds, 2 .. 30)

\* C16, amended: get after set (s) returns s with targetLufs, displayMode,
\* scopeScale and trailSeconds clamped to their ranges, historySeconds
\* replaced by the nearest allowed window (the shorter of two equally near),
\* any viewMode other than 2 replaced by 1, showDots and persistence replaced
\* by displayMode = 2 and displayMode = 3 of the clamped displayMode, and
\* showRms and freeze as passed; set (get ()) never changes the stored state.
C16_SetGetSanitises ==
    [][ /\ (ghost.arg.kind = "loudness" /\ setLoudnessMeterState(ghost.arg.loudness))
             => LoudnessSanitised(ghost.arg.loudness, priv'.loudnessState)
        /\ (ghost.arg.kind = "stereo" /\ setStereoMeterState(ghost.arg.stereo))
             => StereoSanitised(ghost.arg.stereo, priv'.stereoState)
        /\ SetGetIsIdentity ]_vars

\* a stereo state with every field in range and showDots set under display
\* mode 1 has been stored, with showDots cleared
C16_Witness ==
    /\ uiResult = "stereo_set" /\ ghost.arg.kind = "stereo"
    /\ ghost.arg.stereo = [ viewMode |-> 2, displayMode |-> 1, scopeScale |-> 10,
                            historySeconds |-> 6, freeze |-> TRUE, showDots |-> TRUE,
                            persistence |-> FALSE, trailSeconds |-> 6 ]
    /\ priv.stereoState = [ghost.arg.stereo EXCEPT !.showDots = FALSE]

----------------------------------------------------------------------------
(* Properties: silence.                                                    *)

SentinelPublished ==
    /\ shared.momentaryLufs <= -95
    /\ shared.shortTermLufs <= -95
    /\ shared.integratedLufs <= -95

----------------------------------------------------------------------------
(* Properties: spectrum frames.                                            *)

\* C20: every spectrum frame the FFT stage emits writes exactly one
\* spectrogram column: after F frames since the last prepare exactly F columns
\* have been written, also when one block completes several frames.
C20_OneColumnPerFrame == Len(ghost.colsWritten) = ghost.frames


\* the frames emitted after total samples when the first one comes with the
\* size-th sample and one more with every further hop samples
FramesPerHop(total, size, hop) ==
    IF total < size THEN 0 ELSE 1 + (total - size) \div hop

\* C19: once fftSize samples have accumulated since the last prepare the
\* first spectrum frame is emitted, and one more frame with every further
\* hop = fftSize / 4 samples (each window keeps the last fftSize - hop samples
\* of the one before and takes hop new ones).
C19_FramePerHop == ghost.frames = FramesPerHop(ghost.total, priv.fftSize, priv.fftHop)

----------------------------------------------------------------------------
(* Properties: the sentinel.                                               *)

\* the accumulator's floor, 1.0e-12f
EnergyFloor == 1

\* lufs is what the claim has a block publish for the accumulator energy: the
\* sentinel only at the floor, else -0.691 + 10 log10 of the accumulator (with
\* or without the 1.0e-12f the code adds)
PublishedFor(lufs, energy) ==
    /\ lufs = -100 => energy <= EnergyFloor
    /\ energy > EnergyFloor => lufs \in {energyToLoudness(energy), Log10Ceil(energy + 1, 0)}

\* C21: the momentary and the short-term loudness a block publishes are the
\* sentinel -100 only when the accumulator is at its floor; above the floor
\* they are -0.691 + 10 log10 (accumulator), whatever the energy of the block
\* itself (an all-zero block and an empty block included).
C21_SentinelOnlyAtFloor ==
    [][ \A b \in Blocks({1}, EnergyLevels, MaxBlock, MaxLoudTotal) :
          (ProcessBlock(b) /\ pcAudio' = "idle") =>
             /\ PublishedFor(shared'.momentaryLufs, priv'.momentaryEnergy)
             /\ PublishedFor(shared'.shortTermLufs, priv'.shortTermEnergy) ]_vars

----------------------------------------------------------------------------
(* The waveform history under samples beyond full scale.                   *)

\* sample values of a float host, in halves: -1.5, 0 and +1.5
WaveLevels == {-3, 0, 3}

\* a block of n samples, left at l and right at r
WaveBlock(n, l, r) ==
    [ numCh |-> 2,
      L  |-> [i \in 1 .. n |-> l],
      R  |-> [i \in 1 .. n |-> r],
      sq |-> [i \in 1 .. n |-> IF l = 0 /\ r = 0 THEN 0 ELSE 3998696] ]

WaveBlocks ==
    { WaveBlock(n, l, 0 - l) :
        n \in 0 .. jmin(MaxBlock, MaxTotal - ghost.total), l \in WaveLevels }

\* a host whose samples may exceed full scale
NextWave ==
    \/ \E sr \in SampleRates : Prepare(sr)
    \/ \E b \in WaveBlocks : ProcessBlock(b)

SpecWave == Init /\ [][NextWave]_vars

\* the samples the i-th bucket closed since the last prepare covers
BucketSamples(i, ch) ==
    LET n == shared.waveformSamplesPerBucket
    IN  { ghost.waveFed[k][ch + 1] : k \in (i - 1) * n + 1 .. i * n }

SetMin(S) == CHOOSE x \in S : \A y \in S : x <= y

SetMax(S) == CHOOSE x \in S : \A y \in S : x >= y

\* C22: every closed waveform bucket stores, per channel, exactly the minimum
\* and the maximum of the waveformSamplesPerBucket consecutive samples it
\* covers, whatever their values, also when all of them lie above +1.0 or all
\* below -1.0
C22_BucketHoldsExtrema ==
    \A i \in 1 .. Len(ghost.wavePushed) :
        ghost.wavePushed[i] = << SetMin(BucketSamples(i, 0)), SetMax(BucketSamples(i, 0)),
                                 SetMin(BucketSamples(i, 1)), SetMax(BucketSamples(i, 1)) >>

\* the waveform builder's fields as prepareToPlay leaves them
WaveformPrepared ==
    [ waveformMin |-> [ch \in 0 .. 1 |-> Assign(kWaveformResolution, 0)],
      waveformMax |-> [ch \in 0 .. 1 |-> Assign(kWaveformResolution, 0)],
      waveformBandEnergy |->
          [ch \in 0 .. 1 |-> [band \in 0 .. 2 |-> Assign(kWaveformResolution, 0)]],
      waveformBandAccum |-> [ch \in 0 .. 1 |-> [band \in 0 .. 2 |-> 0]],
      filters |-> [ch \in 0 .. 1 |-> FilterReset],
      waveformSamplesPerBucket |-> shared.waveformSamplesPerBucket,
      waveformWriteIndex |-> 0, waveformFilled |-> 0, waveformSampleCounter |-> 0,
      waveformCurrentMin |-> [ch \in 0 .. 1 |-> 2],
      waveformCurrentMax |-> [ch \in 0 .. 1 |-> -2],
      closed |-> <<>>, outOfRange |-> FALSE ]

\* one block holding every sample delivered since the last prepare
InOneBlock ==
    WaveformLoop(WaveformPrepared,
                 [k \in 1 .. Len(ghost.waveFed) |-> ghost.waveFed[k][1]],
                 [k \in 1 .. Len(ghost.waveFed) |-> ghost.waveFed[k][2]])

\* C23: the waveform accumulation does not depend on where the block
\* boundaries fall: however the samples since the last prepare were split into
\* blocks, the rings (extrema and band energies), the write index, the filled
\* count and the carried-over state (running extrema, band accumulators, band
\* filters, sample counter) are those of one block holding all the samples,
\* and a bucket was closed after every waveformSamplesPerBucket samples
\* (a prepared processor)
C23_SplitIndependent ==
    priv.loudnessHistoryIntervalSamples > 0 =>
       /\ [WaveformFields(shared, priv) EXCEPT !.closed = ghost.wavePushed] = InOneBlock
       /\ Len(ghost.wavePushed) = Len(ghost.waveFed) \div shared.waveformSamplesPerBucket

\* three samples after a first one, two to the bucket: the second block closes
\* a bucket at its first sample and another at its third
C23_Witness ==
    /\ Len(ghost.waveFed) = 4 /\ Len(ghost.lastL) = 3
    /\ shared.waveformSamplesPerBucket = 2
    /\ Len(ghost.wavePushed) = 2

\* a block ended inside a bucket and left running state behind
C23_WitnessCarried ==
    /\ Len(ghost.waveFed) = 3 /\ Len(ghost.lastL) = 2
    /\ shared.waveformSampleCounter = 1
    /\ shared.waveformBandAccum[0][0] > 0
    /\ priv.waveformFilters[1] # FilterReset

\* C24: processBlock holds the shared lock only to copy results it has already
\* computed: while it holds the lock it runs no filter, so no step taken under
\* the lock changes what the band filters remember
C24_NoFilterUnderLock ==
    [][ (lock = "audio" /\ pcAudio \in {"pb_rings", "pb_scalars", "pb_history"})
           => priv'.waveformFilters = priv.waveformFilters ]_vars

\* C25: a snapshot is stale for at most one poll period: a fillSnapshot that
\* found the lock taken and kept the previous snapshot is followed by one that
\* refreshes it, so no two polls in a row keep the previous snapshot
C25_StaleForOnePoll == ghost.missed <= 1

\* the polls of the editor's timer are followed from the start
InitPoll ==
    /\ priv = PrivInit
    /\ shared = SharedInit
    /\ lock = "none"
    /\ snapshot = SnapshotInit
    /\ dump = DumpInit
    /\ pcAudio = "idle"
    /\ pcUI = "idle"
    /\ pending = NoPending
    /\ uiResult = "none"
    /\ ghost = [GhostInit EXCEPT !.polls = TRUE]

\* the audio thread, and the editor's timer polling fillSnapshot
NextPoll ==
    \/ AudioThread
    \/ FS_TryLock(FALSE)
    \/ FS_Copy

SpecPoll == InitPoll /\ [][NextPoll]_vars

----------------------------------------------------------------------------
(* resetLoudnessStatistics while the audio thread runs.                    *)

MaxResetTotal == 2

\* the watched reset is followed from the start
InitReset ==
    /\ priv = PrivInit
    /\ shared = SharedInit
    /\ lock = "none"
    /\ snapshot = SnapshotInit
    /\ dump = DumpInit
    /\ pcAudio = "idle"
    /\ pcUI = "idle"
    /\ pending = NoPending
    /\ uiResult = "none"
    /\ ghost = [GhostInit EXCEPT !.watch = TRUE]

\* the audio thread under input of two levels, the message thread resetting
NextReset ==
    \/ PR_Private(1)
    \/ PR_Enter
    \/ PR_Shared
    \/ \E b \in Blocks({2}, {150000, 3998696}, MaxConcBlock, MaxResetTotal) : PB_Compute(b)
    \/ PB_Enter
    \/ PB_Rings
    \/ PB_Scalars
    \/ PB_History
    \/ RS_Private
    \/ RS_PrivateRaced
    \/ RS_Enter
    \/ RS_Clear

SpecReset == InitReset /\ [][NextReset]_vars

\* C26: a resetLoudnessStatistics that runs while processBlock runs is never
\* lost: once it has returned, a block that started after that publishes
\* max-hold values no greater than the largest momentary / short-term
\* loudness computed by the blocks that ran during or after the reset
C26_ResetNeverLost ==
    [][ ( /\ pcAudio = "pb_scalars" /\ pcAudio' = "pb_history"
          /\ ghost.resetPhase = "returned" /\ ghost.laterBlock )
        => /\ shared'.maxMomentary <= ghost.sinceMomentary
           /\ shared'.maxShortTerm <= ghost.sinceShortTerm ]_vars

\* C27: in updateIntegratedMetrics the relative gate never removes every
\* block: when at least one held block passes the absolute gate, at least one
\* of those has loudness >= (loudness of their mean energy - 10), so the gated
\* count is at least 1 and the fallback to the ungated mean is never taken
C27_RelativeGateKeepsOne ==
    (priv.integratedFilled > 0 /\ AbsoluteGated(priv) # <<>>)
       => Len(RelativeGated(AbsoluteGated(priv))) >= 1

\* the relative gate has removed a block and kept another
C27_Witness ==
    /\ priv.integratedFilled > 1
    /\ Len(AbsoluteGated(priv)) > 1
    /\ Len(RelativeGated(AbsoluteGated(priv))) \in 1 .. Len(AbsoluteGated(priv)) - 1

----------------------------------------------------------------------------
(* One channel, and two channels carrying the same signal.                 *)

\* a block of one channel, or of two channels with the same samples in both
DualMono(numCh, n, base) ==
    [ numCh |-> numCh,
      L  |-> [i \in 1 .. n |-> Sample(base + i - 1)],
      R  |-> [i \in 1 .. n |-> Sample(base + i - 1)],
      sq |-> [i \in 1 .. n |-> 3998696] ]

DualMonoBlocks ==
    { DualMono(numCh, n, ghost.total) :
        numCh \in {1, 2}, n \in 0 .. jmin(MaxBlock, MaxTotal - ghost.total) }

\* a host that delivers mono signals in either layout
NextMono ==
    \/ \E sr \in SampleRates : Prepare(sr)
    \/ \E b \in DualMonoBlocks : ProcessBlock(b)

SpecMono == Init /\ [][NextMono]_vars

\* the stereo figures, the oscilloscope and the waveform as published from
\* the pending record pend into the shared record sh
StereoView(sh, pend) ==
    [ correlation |-> sh.correlation, stereoWidth |-> sh.stereoWidth,
      leftRms |-> pend.stereo.rmsBlockL, rightRms |-> pend.stereo.rmsBlockR,
      midRms |-> pend.stereo.midRmsBlock, sideRms |-> pend.stereo.sideRmsBlock,
      balanceDb |-> pend.stereo.balanceDb,
      lissajousCount |-> sh.lissajousCount, lissajous |-> pend.stereo.lissa,
      oscilloscopeBuffer |-> sh.oscilloscopeBuffer,
      oscilloscopeWriteIndex |-> sh.oscilloscopeWriteIndex,
      oscilloscopeFilled |-> sh.oscilloscopeFilled,
      waveformMin |-> sh.waveformMin, waveformMax |-> sh.waveformMax,
      waveformBandEnergy |-> sh.waveformBandEnergy,
      waveformWriteIndex |-> sh.waveformWriteIndex,
      waveformFilled |-> sh.waveformFilled ]

PublishOutcome(res) ==
    StereoView(Publish(shared, res.pend, res.priv, shared.stampRings), res.pend)

\* what processBlock on b publishes from the current state
PublishedBy(b) == PublishOutcome(Compute(priv, b, ghost.frames))

\* C28: a block of one channel publishes the same stereo figures (correlation,
\* stereo width, left / right / mid / side RMS, balance, Lissajous points) and
\* the same oscilloscope and waveform entries as the block of two channels
\* whose right channel equals that left channel (a prepared processor)
C28_MonoAsDualMono ==
    priv.loudnessHistoryIntervalSamples > 0 =>
      \A n \in 0 .. MaxBlock :
         PublishedBy(DualMono(1, n, ghost.total)) = PublishedBy(DualMono(2, n, ghost.total))

\* without the correlation and the width
ButCorrelation(view) == [view EXCEPT !.correlation = 0, !.stereoWidth = 0]

\* the two layouts do agree on every figure but the correlation and the width
C28_AllButCorrelation ==
    priv.loudnessHistoryIntervalSamples > 0 =>
      \A n \in 0 .. MaxBlock :
         ButCorrelation(PublishedBy(DualMono(1, n, ghost.total)))
           = ButCorrelation(PublishedBy(DualMono(2, n, ghost.total)))

----------------------------------------------------------------------------
(* processBlock on a processor that was constructed and never prepared.    *)

\* The loop at line 1030 with loudnessHistoryIntervalSamples = 0: its
\* condition stays true, nothing it does can be observed, and ++historyUpdates
\* overflows a signed int.  That is undefined behaviour: the build may stay in
\* the loop for ever or go on behind it, the FFT position advanced by the block.
ColdOutcomes(res, b) ==
    { res,
      [res EXCEPT !.spins = FALSE,
                  !.priv.fftInputPos =
                      FftPos(res.priv.fftSize, res.priv.fftInputPos, res.priv.fftHop,
                             BlockLen(b))] }

ColdBlocks == Blocks({1, 2}, {0, 3998696}, MaxBlock, MaxTotal)

\* processBlock while the processor has never been prepared
ProcessCold(b) ==
    /\ pcAudio = "idle" /\ pcUI = "idle"
    /\ HistoryLoopSpins(priv)
    /\ \E res \in ColdOutcomes(Compute(priv, b, ghost.frames), b) : Finish(b, res)
    /\ UNCHANGED <<lock, snapshot, dump, pcUI, pending, uiResult>>

NextCold ==
    \/ \E b \in ColdBlocks : ProcessCold(b)
    \/ FillSnapshot(FALSE)

SpecCold == Init /\ [][NextCold]_vars

\* the largest index of fftInput that n more samples write
MaxFftIndex(p, n) ==
    IF FftFrames(p.fftSize, p.fftInputPos, p.fftHop, n) > 0
    THEN p.fftSize - 1
    ELSE p.fftInputPos + n - 1

\* every buffer processBlock indexes on block b is longer than the largest
\* index it writes
IndicesInRange(p, sh, b) ==
    /\ BlockLen(b) > 0 => MaxFftIndex(p, BlockLen(b)) < p.fftInputSize
    /\ ~WaveformResult(sh, [L |-> b.L, R |-> RightOrLeft(b)], p).outOfRange
    /\ sh.waveformWriteIndex < Size(sh.waveformMin[0])
    /\ sh.oscilloscopeWriteIndex < Size(sh.oscilloscopeBuffer)
    /\ sh.writePosition < Size(sh.audioHistory[0])
    /\ sh.spectrogramWritePosition < Size(sh.spectrogramHistory)

\* C29: processBlock on a constructed but never prepared processor performs no
\* out-of-range buffer access: the FFT input, the waveform rings, the band
\* energy rings, the oscilloscope, the audio history and the spectrogram are,
\* as the constructor leaves them, longer than every index it writes
C29_ColdIndicesInRange ==
    [][ \A b \in ColdBlocks :
          (ProcessCold(b) /\ pcAudio' = "idle") => IndicesInRange(priv, shared, b) ]_vars

\* a prepared processor does have them all in range
PreparedIndicesInRange ==
    priv.loudnessHistoryIntervalSamples > 0 =>
      \A b \in ColdBlocks : IndicesInRange(priv, shared, b)

----------------------------------------------------------------------------
(* Properties: the spectrum across prepareToPlay.                          *)

\* a step of prepareToPlay at the sample rate in use, after blocks were
\* processed since the prepare before it
PrepareAgain ==
    /\ priv.loudnessHistoryIntervalSamples > 0
    /\ priv'.loudnessHistoryIntervalSamples = priv.loudnessHistoryIntervalSamples
    /\ ghost.total > 0
    /\ ghost'.total = 0

\* C30: after a prepare that follows earlier processing at the same sample
\* rate, shared.spectrum and shared.spectrumAverages are all zeros and stay so
\* until a new frame is emitted: a fillSnapshot right after that prepare
\* returns an all-zero spectrum and the first frame is blended into zeros
C30_PrepareZeroesSpectrum ==
    [][ /\ PrepareAgain =>
             /\ shared'.spectrum = 0
             /\ shared'.spectrumAverages = 0
             /\ CopySnapshot(snapshot', shared', FALSE).spectrum = 0
        /\ ghost'.frames = ghost.frames =>
             /\ shared'.spectrum = shared.spectrum
             /\ shared'.spectrumAverages = shared.spectrumAverages ]_vars

\* what does hold: without a new frame the two spectra stay as they are, and
\* the first prepareToPlay finds them empty
SpectrumKeptUntilFrame ==
    [][ /\ ghost'.frames = ghost.frames =>
             /\ shared'.spectrum = shared.spectrum
             /\ shared'.spectrumAverages = shared.spectrumAverages
        /\ (priv.loudnessHistoryIntervalSamples = 0 /\ priv'.loudnessHistoryIntervalSamples > 0) =>
             /\ shared'.spectrum = 0
             /\ shared'.spectrumAverages = 0 ]_vars

====
